---- MODULE Spec2Model ----
(***************************************************************************)
(* Risk classification and recovery scoring engine of tree_health          *)
(* (src/app.py): calculate_metrics (the gate cascade and the verdict),     *)
(* get_recovery_score (the weighted score and the veto protocol),          *)
(* get_recovery_history_data (the loop that scores a range of dates),      *)
(* get_trend_data (the 3-day and 7-day deltas) and the Crash Predictor     *)
(* panel of get_dashboard_context.                                         *)
(*                                                                         *)
(* Numbers are exact rationals [n, d] (d > 0, lowest terms), so that the   *)
(* thresholds of the code (53.6, 48.1, 34.8, 0.5 sd, ratio 0.9 ...) are    *)
(* hit exactly.  Python floats differ from the rationals only by rounding  *)
(* noise at an exact threshold or an exact rounding tie.                   *)
(*                                                                         *)
(* A nullable column is << >> (NULL) or <<v>>; a table maps each day to    *)
(* << >> (no row) or <<row>>.  Days are integers; a day outside Days has   *)
(* no row.  A text is the sequence of its words and punctuation marks, so  *)
(* that "x in reason" is the search of a contiguous subsequence.           *)
(***************************************************************************)
EXTENDS Integers, Sequences, FiniteSets, TLC

VARIABLES daily_summary, resting_hr, hrv, sleep, activities, verdict, recovery,
          history, trends

vars == <<daily_summary, resting_hr, hrv, sleep, activities, verdict, recovery,
          history, trends>>

(* ------------------------------ bounds ------------------------------ *)

\* Number of calendar days of the modelled database: days 0 .. NumDays-1.
\* Nine days hold the eight days a score reads and the day before them.
NumDays == 9

\* Largest number of rows of the activities table.
MaxActs == 1

\* The curves of the sub-scores are compared on a grid of twentieths:
\* |z| up to MaxZ20 / 20 and HRV ratios up to MaxRatio20 / 20.
MaxZ20 == 80

MaxRatio20 == 40

\* Largest number of days a history request asks for.
MaxHistoryDays == 4

Days == 0 .. (NumDays - 1)

\* The most recent day of the database.
LastDay == NumDays - 1

(* ----------------------------- rationals ---------------------------- *)

Abs(i) == IF i < 0 THEN -i ELSE i

RECURSIVE GCD(_, _)
GCD(a, b) == IF b = 0 THEN a ELSE GCD(b, a % b)

\* The rational n/d in lowest terms with a positive denominator (d # 0).
R(n, d) ==
    LET g == GCD(Abs(n), Abs(d))
        s == IF d < 0 THEN -1 ELSE 1
    IN  [n |-> s * (n \div g), d |-> s * (d \div g)]

RInt(i) == [n |-> i, d |-> 1]

RAdd(a, b) ==
    LET g == GCD(a.d, b.d)
    IN  R(a.n * (b.d \div g) + b.n * (a.d \div g), a.d * (b.d \div g))

RNeg(a) == [n |-> -a.n, d |-> a.d]

RSub(a, b) == RAdd(a, RNeg(b))

RMul(a, b) ==
    LET g1 == GCD(Abs(a.n), b.d)
        g2 == GCD(Abs(b.n), a.d)
    IN  R((a.n \div g1) * (b.n \div g2), (a.d \div g2) * (b.d \div g1))

\* a / b for b # 0.
RDiv(a, b) == RMul(a, R(b.d, b.n))

RLt(a, b) == a.n * b.d < b.n * a.d

RLe(a, b) == a.n * b.d <= b.n * a.d

RAbs(a) == [n |-> Abs(a.n), d |-> a.d]

RMax(a, b) == IF RLt(a, b) THEN b ELSE a

\* Python round(x, k) with scale = 10^k: the nearest multiple of 1/scale,
\* an exact tie going to the even one.
RoundTo(x, scale) ==
    LET ip == x.n \div x.d
        r  == x.n % x.d
        q  == ip * scale + ((r * scale) \div x.d)
        r2 == (r * scale) % x.d
        up == \/ 2 * r2 > x.d
              \/ (2 * r2 = x.d /\ q % 2 = 1)
    IN  R(IF up THEN q + 1 ELSE q, scale)

\* Python int(x): truncation toward zero.
Trunc(x) == IF x.n >= 0 THEN x.n \div x.d ELSE -((-x.n) \div x.d)

(* ------------------------- nullable values -------------------------- *)

NULL == << >>

Some(v) == <<v>>

\* Python truthiness of a nullable number: neither None nor zero.
Truthy(o) == o # NULL /\ o[1].n # 0

\* "x if x else 0" of the code.
OrZero(o) == IF Truthy(o) THEN o[1] ELSE RInt(0)

(* ------------------------------ texts ------------------------------- *)

\* str() of an integer.
IntText(i) == <<ToString(i)>>

\* str() of a float with at most two decimals: 4.4, 50.0, 36.67
FloatText(x) ==
    LET h    == RoundTo(x, 100)
        neg  == h.n < 0
        c    == (Abs(h.n) * 100) \div h.d
        ip   == c \div 100
        f    == c % 100
        frac == IF f % 10 = 0 THEN ToString(f \div 10)
                ELSE ToString(f \div 10) \o ToString(f % 10)
    IN  <<(IF neg THEN "-" ELSE "") \o ToString(ip), ".", frac>>

\* str() of a numeric column value: an integer prints without a point.
NumText(x) == IF x.d = 1 THEN IntText(x.n) ELSE FloatText(x)

\* The ISO text of a day, one word.
DayText(d) == <<"D" \o ToString(d)>>

\* ", ".join(texts)
RECURSIVE Join(_)
Join(texts) ==
    IF texts = << >> THEN << >>
    ELSE IF Len(texts) = 1 THEN texts[1]
    ELSE texts[1] \o <<",">> \o Join(Tail(texts))

\* needle in text
Contains(text, needle) ==
    \E i \in 1 .. (Len(text) - Len(needle) + 1) :
        SubSeq(text, i, i + Len(needle) - 1) = needle

\* x in list
Member(x, list) == \E i \in 1 .. Len(list) : list[i] = x

(* ----------------------------- database ----------------------------- *)

\* One row of daily_summary; every column is nullable.
Row(rhr, hr_max, bb_charged, stress_avg, steps, calories_active) ==
    [rhr |-> rhr, hr_max |-> hr_max, bb_charged |-> bb_charged,
     bb_max |-> NULL, stress_avg |-> stress_avg, steps |-> steps,
     calories_active |-> calories_active]

\* cursor.fetchone() of "SELECT ... WHERE day = ?": << >> when no row.
\* Variant of Fetch: a day without a row yields the row of the day before.
Fetch_EarlierRow(table, day) ==
    IF day \notin Days THEN << >>
    ELSE IF table[day] # << >> THEN table[day]
    ELSE IF day - 1 \in Days THEN table[day - 1]
    ELSE << >>

Fetch(table, day) == IF day \in Days THEN table[day] ELSE << >>

\* A duration text "HH:MM:SS" as its three numbers.
Time(h, m, s) == [h |-> h, m |-> m, s |-> s]

\* parse_time_str: minutes of a duration text; 0 for None or a text that
\* datetime.strptime(.., "%H:%M:%S") rejects.
parse_time_str(time_str) ==
    IF time_str = NULL THEN RInt(0)
    ELSE LET t == time_str[1]
         IN  IF t.h \in 0 .. 23 /\ t.m \in 0 .. 59 /\ t.s \in 0 .. 59
             THEN RAdd(RInt(t.h * 60 + t.m), R(t.s, 60))
             ELSE RInt(0)

(* ------------------------ calculate_metrics ------------------------- *)

BASELINE_RHR == R(506, 10)

BASELINE_COST == RInt(29)

BASELINE_STEPS == RInt(4000)

BASELINE_STRESS == RInt(35)

VOLUME_LIMIT == RInt(3000)

COST_LIMIT == RInt(150)

SensoryFlag == <<"High", "Idle", "/", "Sensory", "Overload">>

SensoryReason ==
    <<"System", "is", "idling", "high", ".", "Physical", "rest", "is", "not",
      "enough", ";", "requires", "sensory", "deprivation", ".">>

\* Variant of Gate1Rhr: the two thresholds belong to the flagged side.
Gate1Rhr_Inclusive(rhr) ==
    IF Truthy(rhr) /\ RLe(RAdd(BASELINE_RHR, RInt(3)), rhr[1])
    THEN << <<"High", "RHR", "(", "+">>
            \o FloatText(RoundTo(RSub(rhr[1], BASELINE_RHR), 10)) \o <<")">> >>
    ELSE IF Truthy(rhr) /\ RLe(rhr[1], RSub(BASELINE_RHR, R(25, 10)))
    THEN << <<"Metabolic", "Freeze", "Detected", "(", "RHR">>
            \o NumText(rhr[1]) \o <<")">> >>
    ELSE << >>

\* Gate 1: resting heart rate, if / elif.
Gate1Rhr(rhr) ==
    IF Truthy(rhr) /\ RLt(RAdd(BASELINE_RHR, RInt(3)), rhr[1])
    THEN << <<"High", "RHR", "(", "+">>
            \o FloatText(RoundTo(RSub(rhr[1], BASELINE_RHR), 10)) \o <<")">> >>
    ELSE IF Truthy(rhr) /\ RLt(rhr[1], RSub(BASELINE_RHR, R(25, 10)))
    THEN << <<"Metabolic", "Freeze", "Detected", "(", "RHR">>
            \o NumText(rhr[1]) \o <<")">> >>
    ELSE << >>

\* Sensory load flag of the target day.
SensoryLoad(steps, stress_avg) ==
    IF /\ steps # NULL
       /\ RLt(steps[1], RInt(3000))
       /\ Truthy(stress_avg)
       /\ RLt(RInt(35), stress_avg[1])
    THEN <<SensoryFlag>>
    ELSE << >>

\* Gate 2: body battery charged.
Gate2Battery(bb_charged) ==
    IF Truthy(bb_charged) /\ RLt(bb_charged[1], RInt(50))
    THEN << <<"Poor", "Recharge", "(", "Max">> \o NumText(bb_charged[1])
            \o <<"%", ")">> >>
    ELSE << >>

\* Recharge ratio = body battery gain / hours of sleep.
MitoEfficiency(sleep_hours, bb_charged) ==
    IF RLt(RInt(0), sleep_hours) /\ Truthy(bb_charged)
    THEN LET recharge_ratio == RDiv(bb_charged[1], sleep_hours)
         IN  IF RLt(recharge_ratio, RInt(5))
             THEN << <<"Unrefreshing", "Sleep", "(", "Ratio">>
                     \o FloatText(RoundTo(recharge_ratio, 10))
                     \o <<"<", "5", ".", "0", ")">> >>
             ELSE << >>
    ELSE << >>

\* Variant of Gate3Lag2: without the rule on the step volume.
Gate3Lag2_NoVolumeRule(row_t2, day_t2) ==
    IF row_t2 = << >> THEN << >>
    ELSE
    LET val_steps_t2  == OrZero(row_t2[1].steps)
        val_stress_t2 == OrZero(row_t2[1].stress_avg)
        risk_score    == RAdd(RDiv(val_steps_t2, BASELINE_STEPS),
                              RDiv(val_stress_t2, BASELINE_STRESS))
        load ==
            IF RLt(RInt(35), val_stress_t2) /\ RLt(val_steps_t2, RInt(3000))
            THEN << <<"Lag", "-", "2", "Risk", ":", "Sensory", "Overload",
                      "Detected">> >>
            ELSE IF RLt(R(15, 10), risk_score)
            THEN << <<"Lag", "-", "2", "Warning", "(", "Risk">>
                    \o FloatText(RoundTo(risk_score, 100)) \o <<")">> >>
            ELSE << >>
        spike ==
            IF Truthy(row_t2[1].hr_max) /\ RLt(RInt(110), row_t2[1].hr_max[1])
            THEN << <<"Lag", "2", "HR", "Spike", "(">> \o DayText(day_t2)
                    \o <<")">> >>
            ELSE << >>
    IN  load \o spike

\* Variant of Gate3Lag2: the composite risk is looked at before the sensory
\* overload and the step volume.
Gate3Lag2_RiskFirst(row_t2, day_t2) ==
    IF row_t2 = << >> THEN << >>
    ELSE
    LET val_steps_t2  == OrZero(row_t2[1].steps)
        val_stress_t2 == OrZero(row_t2[1].stress_avg)
        risk_score    == RAdd(RDiv(val_steps_t2, BASELINE_STEPS),
                              RDiv(val_stress_t2, BASELINE_STRESS))
        load ==
            IF RLt(R(15, 10), risk_score)
            THEN << <<"Lag", "-", "2", "Warning", "(", "Risk">>
                    \o FloatText(RoundTo(risk_score, 100)) \o <<")">> >>
            ELSE IF RLt(RInt(35), val_stress_t2) /\ RLt(val_steps_t2, RInt(3000))
            THEN << <<"Lag", "-", "2", "Risk", ":", "Sensory", "Overload",
                      "Detected">> >>
            ELSE IF RLt(RInt(5000), val_steps_t2)
            THEN << <<"Lag", "-", "2", "Impact", "(", "High", "Load", "on">>
                    \o DayText(day_t2) \o <<")">> >>
            ELSE << >>
        spike ==
            IF Truthy(row_t2[1].hr_max) /\ RLt(RInt(110), row_t2[1].hr_max[1])
            THEN << <<"Lag", "2", "HR", "Spike", "(">> \o DayText(day_t2)
                    \o <<")">> >>
            ELSE << >>
    IN  load \o spike

\* Gate 3: the record two days before the target date.
Gate3Lag2(row_t2, day_t2) ==
    IF row_t2 = << >> THEN << >>
    ELSE
    LET val_steps_t2  == OrZero(row_t2[1].steps)
        val_stress_t2 == OrZero(row_t2[1].stress_avg)
        risk_score    == RAdd(RDiv(val_steps_t2, BASELINE_STEPS),
                              RDiv(val_stress_t2, BASELINE_STRESS))
        load ==
            IF RLt(RInt(35), val_stress_t2) /\ RLt(val_steps_t2, RInt(3000))
            THEN << <<"Lag", "-", "2", "Risk", ":", "Sensory", "Overload",
                      "Detected">> >>
            ELSE IF RLt(RInt(5000), val_steps_t2)
            THEN << <<"Lag", "-", "2", "Impact", "(", "High", "Load", "on">>
                    \o DayText(day_t2) \o <<")">> >>
            ELSE IF RLt(R(15, 10), risk_score)
            THEN << <<"Lag", "-", "2", "Warning", "(", "Risk">>
                    \o FloatText(RoundTo(risk_score, 100)) \o <<")">> >>
            ELSE << >>
        spike ==
            IF Truthy(row_t2[1].hr_max) /\ RLt(RInt(110), row_t2[1].hr_max[1])
            THEN << <<"Lag", "2", "HR", "Spike", "(">> \o DayText(day_t2)
                    \o <<")">> >>
            ELSE << >>
    IN  load \o spike

\* Safety ceiling: the record of the day before the target date.
SafetyCeiling(row_t1) ==
    IF row_t1 = << >> THEN << >>
    ELSE
    LET val_steps_t1       == OrZero(row_t1[1].steps)
        val_active_cals_t1 == OrZero(row_t1[1].calories_active)
        physio_cost_t1 ==
            IF RLt(RInt(0), val_steps_t1)
            THEN RMul(RDiv(val_active_cals_t1, val_steps_t1), RInt(1000))
            ELSE RInt(0)
    IN  IF RLt(VOLUME_LIMIT, val_steps_t1)
        THEN << <<"Volume", "Ceiling", "Breached", "(">>
                \o NumText(val_steps_t1) \o <<"steps", ")">> >>
        ELSE IF RLt(COST_LIMIT, physio_cost_t1)
        THEN << <<"High", "Metabolic", "Tax", "(", "Cost", ":">>
                \o IntText(Trunc(physio_cost_t1)) \o <<")">> >>
        ELSE << >>

\* Active calories per 1000 steps of the target day (0 when not computed).
PhysioCost(steps, active_cals) ==
    IF Truthy(steps) /\ RLt(RInt(0), steps[1]) /\ Truthy(active_cals)
    THEN RMul(RDiv(active_cals[1], steps[1]), RInt(1000))
    ELSE RInt(0)

\* Variant of Gate5Cost: a cost equal to baseline + 20 % is flagged too.
Gate5Cost_Inclusive(steps, active_cals) ==
    IF /\ Truthy(steps) /\ RLt(RInt(0), steps[1]) /\ Truthy(active_cals)
       /\ RLe(RMul(BASELINE_COST, R(12, 10)), PhysioCost(steps, active_cals))
    THEN << <<"High", "Physiological", "Cost", "(">>
            \o IntText(Trunc(PhysioCost(steps, active_cals))) \o <<")">> >>
    ELSE << >>

\* Gate 5: physiological cost against baseline + 20 %.
Gate5Cost(steps, active_cals) ==
    IF /\ Truthy(steps) /\ RLt(RInt(0), steps[1]) /\ Truthy(active_cals)
       /\ RLt(RMul(BASELINE_COST, R(12, 10)), PhysioCost(steps, active_cals))
    THEN << <<"High", "Physiological", "Cost", "(">>
            \o IntText(Trunc(PhysioCost(steps, active_cals))) \o <<")">> >>
    ELSE << >>

\* The avg_cadence of the walking / hiking activities that start on a day,
\* in table order.
RECURSIVE WalkRows(_, _)
WalkRows(acts, day) ==
    IF acts = << >> THEN << >>
    ELSE (IF acts[1].day = day /\ acts[1].walk
          THEN <<acts[1].avg_cadence>> ELSE << >>)
         \o WalkRows(Tail(acts), day)

\* Variant of Gate6Zombie: a cadence of 95 counts as slow.
Gate6Zombie_Inclusive(rows) ==
    IF \E i \in 1 .. Len(rows) :
          /\ Truthy(rows[i])
          /\ RLt(RInt(0), rows[i][1])
          /\ RLe(rows[i][1], RInt(95))
    THEN << <<"Inefficient", "Movement", "(", "Shuffle", ")">> >>
    ELSE << >>

\* Gate 6: one warning at the first slow walk of the day before.
Gate6Zombie(rows) ==
    IF \E i \in 1 .. Len(rows) :
          /\ Truthy(rows[i])
          /\ RLt(RInt(0), rows[i][1])
          /\ RLt(rows[i][1], RInt(95))
    THEN << <<"Inefficient", "Movement", "(", "Shuffle", ")">> >>
    ELSE << >>

\* Variant of FinalVerdict: the warnings are looked at before the red flags.
FinalVerdict_WarningsFirst(red_flags, warnings) ==
    IF Len(warnings) >= 1
    THEN [status |-> "YELLOW",
          reason |-> <<"CAUTION", ".">> \o Join(warnings),
          target_steps |-> 3000]
    ELSE IF Len(red_flags) > 0
    THEN [status |-> "RED",
          reason |-> <<"STOP", ".">> \o Join(red_flags),
          target_steps |-> 1500]
    ELSE [status |-> "GREEN",
          reason |-> <<"Go", "for", "it", ".", "Maintain", "pacing", ".">>,
          target_steps |-> 4500]

\* Variant of FinalVerdict: the sensory flag has no message of its own.
FinalVerdict_NoSensoryReason(red_flags, warnings) ==
    IF Len(red_flags) > 0
    THEN [status |-> "RED",
          reason |-> <<"STOP", ".">> \o Join(red_flags),
          target_steps |-> 1500]
    ELSE IF Len(warnings) >= 1
    THEN [status |-> "YELLOW",
          reason |-> <<"CAUTION", ".">> \o Join(warnings),
          target_steps |-> 3000]
    ELSE [status |-> "GREEN",
          reason |-> <<"Go", "for", "it", ".", "Maintain", "pacing", ".">>,
          target_steps |-> 4500]

\* The final verdict: [status, reason, target_steps].
FinalVerdict(red_flags, warnings) ==
    IF Len(red_flags) > 0
    THEN [status |-> "RED",
          reason |-> IF Member(SensoryFlag, red_flags)
                     THEN SensoryReason
                     ELSE <<"STOP", ".">> \o Join(red_flags),
          target_steps |-> 1500]
    ELSE IF Len(warnings) >= 1
    THEN [status |-> "YELLOW",
          reason |-> <<"CAUTION", ".">> \o Join(warnings),
          target_steps |-> 3000]
    ELSE [status |-> "GREEN",
          reason |-> <<"Go", "for", "it", ".", "Maintain", "pacing", ".">>,
          target_steps |-> 4500]

\* Variant of NoData: a missing row is taken for a clean day.
NoData_AsGreen(target_date) ==
    [target_date |-> target_date, status |-> "GREEN",
     reason |-> <<"Go", "for", "it", ".", "Maintain", "pacing", ".">>,
     target_steps |-> 4500,
     red_flags |-> << >>, warnings |-> << >>, physio_cost |-> RInt(0)]

\* The verdict of a date that has no daily_summary row.
NoData(target_date) ==
    [target_date |-> target_date, status |-> "GRAY",
     reason |-> <<"No", "Data">>, target_steps |-> 0,
     red_flags |-> << >>, warnings |-> << >>, physio_cost |-> RInt(0)]

\* Variant of DayT2: the day before the target date.
DayT2_Yesterday(target_date) == target_date - 1

\* The date whose record Gate 3 reads.
DayT2(target_date) == target_date - 2

\* calculate_metrics(target_date, conn, conn_activities).  The result holds
\* the returned status, reason and target_steps, the argument, and the two
\* local flag lists as they are when the function returns.
calculate_metrics(target_date) ==
    LET row       == Fetch(daily_summary, target_date)
        row_sleep == Fetch(sleep, target_date)
    IN
    IF row = << >>
    THEN NoData(target_date)
    ELSE
    LET rhr         == row[1].rhr
        bb_charged  == row[1].bb_charged
        active_cals == row[1].calories_active
        steps       == row[1].steps
        stress_avg  == row[1].stress_avg
        sleep_hours ==
            IF row_sleep # << >> /\ row_sleep[1].total_sleep # NULL
            THEN RDiv(parse_time_str(row_sleep[1].total_sleep), RInt(60))
            ELSE RInt(0)
        day_t2 == DayT2(target_date)
        row_t2 == Fetch(daily_summary, day_t2)
        day_t1 == target_date - 1
        row_t1 == Fetch(daily_summary, day_t1)
        yesterday == target_date - 1
        red_flags ==
            Gate1Rhr(rhr) \o SensoryLoad(steps, stress_avg)
            \o Gate2Battery(bb_charged) \o SafetyCeiling(row_t1)
        warnings ==
            MitoEfficiency(sleep_hours, bb_charged)
            \o Gate3Lag2(row_t2, day_t2)
            \o Gate5Cost(steps, active_cals)
            \o Gate6Zombie(WalkRows(activities, yesterday))
        v == FinalVerdict(red_flags, warnings)
    IN  [target_date |-> target_date, status |-> v.status,
         reason |-> v.reason, target_steps |-> v.target_steps,
         red_flags |-> red_flags, warnings |-> warnings,
         physio_cost |-> PhysioCost(steps, active_cals)]

\* No evaluation has been made yet.
NoVerdict ==
    [target_date |-> -1, status |-> "NONE", reason |-> << >>,
     target_steps |-> 0, red_flags |-> << >>, warnings |-> << >>,
     physio_cost |-> RInt(0)]

\* One call of calculate_metrics on the current database.
Evaluate(target_date) ==
    /\ verdict' = calculate_metrics(target_date)
    /\ UNCHANGED <<daily_summary, resting_hr, hrv, sleep, activities, recovery,
                   history, trends>>

(* ----------------------- get_recovery_score ------------------------ *)

GOLDEN_RHR_MEAN == R(5061, 100)

GOLDEN_RHR_SD == R(178, 100)

GOLDEN_STRESS_MEAN == R(3577, 100)

\* Fallback of the 7-day HRV average.
GOLDEN_HRV == R(5145, 100)

\* Default of the raw stress.
DEFAULT_STRESS == RInt(30)

WEIGHT_RHR == R(4, 10)

WEIGHT_HRV == R(4, 10)

WEIGHT_STRESS == R(2, 10)

\* Variant of Present: the range has no upper end.
Present_NoUpperEnd(table, col, lo, hi) ==
    { d \in Days : /\ lo <= d
                   /\ table[d] # << >>
                   /\ table[d][1][col] # NULL }

\* The days of "day BETWEEN lo AND hi" whose row has the column non-null.
Present(table, col, lo, hi) ==
    { d \in Days : /\ lo <= d /\ d <= hi
                   /\ table[d] # << >>
                   /\ table[d][1][col] # NULL }

RECURSIVE SumCol(_, _, _)
SumCol(table, col, days) ==
    IF days = {} THEN RInt(0)
    ELSE LET d == CHOOSE x \in days : TRUE
         IN  RAdd(table[d][1][col][1], SumCol(table, col, days \ {d}))

\* SELECT AVG(col) FROM table WHERE day BETWEEN lo AND hi: NULL when no
\* row of the range has the column.
Avg(table, col, lo, hi) ==
    LET days == Present(table, col, lo, hi)
    IN  IF days = {} THEN NULL
        ELSE Some(RDiv(SumCol(table, col, days), RInt(Cardinality(days))))

\* Variant of RhrScore: the warning segment decays with the factor of the
\* critical segment.
RhrScore_SteepWarning(abs_z) ==
    IF RLe(abs_z, R(5, 10)) THEN RInt(100)
    ELSE IF RLe(abs_z, R(15, 10))
    THEN RSub(RInt(100), RMul(RSub(abs_z, R(5, 10)), RInt(50)))
    ELSE RMax(RInt(0),
              RSub(RInt(70), RMul(RSub(abs_z, R(15, 10)), RInt(50))))

\* Variant of RhrScore: the critical segment has no floor at 0.
RhrScore_NoFloor(abs_z) ==
    IF RLe(abs_z, R(5, 10)) THEN RInt(100)
    ELSE IF RLe(abs_z, R(15, 10))
    THEN RSub(RInt(100), RMul(RSub(abs_z, R(5, 10)), RInt(30)))
    ELSE RSub(RInt(70), RMul(RSub(abs_z, R(15, 10)), RInt(50)))

\* The three segments of the resting-heart-rate score.
RhrScore(abs_z) ==
    IF RLe(abs_z, R(5, 10)) THEN RInt(100)
    ELSE IF RLe(abs_z, R(15, 10))
    THEN LET decay == RMul(RSub(abs_z, R(5, 10)), RInt(30))
         IN  RSub(RInt(100), decay)
    ELSE LET extra_decay == RMul(RSub(abs_z, R(15, 10)), RInt(50))
         IN  RMax(RInt(0), RSub(RInt(70), extra_decay))

\* Variant of HrvScore: the two penalty factors are exchanged.
HrvScore_SwappedFactors(hrv_ratio) ==
    IF RLe(R(9, 10), hrv_ratio) /\ RLe(hrv_ratio, R(12, 10)) THEN RInt(100)
    ELSE IF RLt(R(12, 10), hrv_ratio)
    THEN RMax(RInt(0),
              RSub(RInt(100), RMul(RSub(hrv_ratio, R(12, 10)), RInt(500))))
    ELSE RMax(RInt(0),
              RSub(RInt(100), RMul(RSub(R(9, 10), hrv_ratio), RInt(250))))

\* The HRV balance score.
HrvScore(hrv_ratio) ==
    IF RLe(R(9, 10), hrv_ratio) /\ RLe(hrv_ratio, R(12, 10)) THEN RInt(100)
    ELSE IF RLt(R(12, 10), hrv_ratio)
    THEN LET excess == RSub(hrv_ratio, R(12, 10))
         IN  RMax(RInt(0), RSub(RInt(100), RMul(excess, RInt(250))))
    ELSE LET deficit == RSub(R(9, 10), hrv_ratio)
         IN  RMax(RInt(0), RSub(RInt(100), RMul(deficit, RInt(500))))

\* The stress score of the age-corrected stress.
StressScore(adj_stress) ==
    IF RLe(adj_stress, GOLDEN_STRESS_MEAN) THEN RInt(100)
    ELSE LET diff == RSub(adj_stress, GOLDEN_STRESS_MEAN)
         IN  RMax(RInt(0), RSub(RInt(100), RMul(diff, RInt(2))))

\* Variant of Weighted: the weights of HRV and stress are exchanged.
Weighted_Exchanged(rhr_score, hrv_score, stress_score) ==
    RAdd(RAdd(RMul(rhr_score, WEIGHT_RHR), RMul(hrv_score, WEIGHT_STRESS)),
         RMul(stress_score, WEIGHT_HRV))

\* The weighted sum of the three sub-scores.
Weighted(rhr_score, hrv_score, stress_score) ==
    RAdd(RAdd(RMul(rhr_score, WEIGHT_RHR), RMul(hrv_score, WEIGHT_HRV)),
         RMul(stress_score, WEIGHT_STRESS))

\* The two veto messages, without their leading warning sign.
VetoedText ==
    <<"Score", "Vetoed", ":", "System", "Crash", "Detected", ".">>

CappedText ==
    <<"Score", "Capped", "at", "75", "%", "due", "to", "Caution", "status",
      ".">>

\* Variant of Veto: RED caps the score at 40 instead of setting it.
Veto_RedCaps(daily_status, final_score) ==
    IF daily_status = "RED"
    THEN [final_score |-> IF RLt(RInt(40), final_score) THEN RInt(40)
                          ELSE final_score,
          veto_msg |-> Some(VetoedText)]
    ELSE IF daily_status = "YELLOW" /\ RLt(RInt(75), final_score)
    THEN [final_score |-> RInt(75), veto_msg |-> Some(CappedText)]
    ELSE [final_score |-> final_score, veto_msg |-> NULL]

\* Variant of Veto: no YELLOW branch.
Veto_NoYellow(daily_status, final_score) ==
    IF daily_status = "RED"
    THEN [final_score |-> RInt(40), veto_msg |-> Some(VetoedText)]
    ELSE [final_score |-> final_score, veto_msg |-> NULL]

\* Variant of Veto: GRAY is vetoed like RED.
Veto_GrayVetoed(daily_status, final_score) ==
    IF daily_status = "RED" \/ daily_status = "GRAY"
    THEN [final_score |-> RInt(40), veto_msg |-> Some(VetoedText)]
    ELSE IF daily_status = "YELLOW" /\ RLt(RInt(75), final_score)
    THEN [final_score |-> RInt(75), veto_msg |-> Some(CappedText)]
    ELSE [final_score |-> final_score, veto_msg |-> NULL]

\* Variant of Veto: YELLOW sets the score to 75, as RED sets it to 40.
Veto_YellowSets(daily_status, final_score) ==
    IF daily_status = "RED"
    THEN [final_score |-> RInt(40), veto_msg |-> Some(VetoedText)]
    ELSE IF daily_status = "YELLOW"
    THEN [final_score |-> RInt(75), veto_msg |-> Some(CappedText)]
    ELSE [final_score |-> final_score, veto_msg |-> NULL]

\* The veto protocol: the final score and the veto message.
Veto(daily_status, final_score) ==
    IF daily_status = "RED"
    THEN [final_score |-> RInt(40), veto_msg |-> Some(VetoedText)]
    ELSE IF daily_status = "YELLOW" /\ RLt(RInt(75), final_score)
    THEN [final_score |-> RInt(75), veto_msg |-> Some(CappedText)]
    ELSE [final_score |-> final_score, veto_msg |-> NULL]

\* get_recovery_score(conn, daily_status, target_date).  The result holds
\* the returned score, veto_msg and details, the two arguments, and under
\* "locals" the unrounded local variables as they are at the return
\* (final_score there is the weighted sum before the veto protocol).
get_recovery_score(daily_status, target_date) ==
    LET today         == target_date
        seven_days_ago == today - 7
        avg_rhr    == Avg(resting_hr, "resting_heart_rate",
                          seven_days_ago, today)
        current_rhr == IF Truthy(avg_rhr) THEN avg_rhr[1]
                       ELSE GOLDEN_RHR_MEAN
        row_hrv_today == Fetch(hrv, today)
        hrv_today0 == IF row_hrv_today # << >>
                         /\ Truthy(row_hrv_today[1].last_night_avg)
                      THEN row_hrv_today[1].last_night_avg
                      ELSE NULL
        avg_hrv    == Avg(hrv, "last_night_avg", seven_days_ago, today)
        hrv_7d     == IF Truthy(avg_hrv) THEN avg_hrv[1] ELSE GOLDEN_HRV
        hrv_today  == IF hrv_today0 = NULL THEN hrv_7d ELSE hrv_today0[1]
        avg_stress == Avg(daily_summary, "stress_avg", seven_days_ago, today)
        raw_stress == IF Truthy(avg_stress) THEN avg_stress[1]
                      ELSE DEFAULT_STRESS
        rhr_z      == RDiv(RSub(current_rhr, GOLDEN_RHR_MEAN), GOLDEN_RHR_SD)
        abs_z      == RAbs(rhr_z)
        rhr_score  == RhrScore(abs_z)
        hrv_ratio  == IF RLt(RInt(0), hrv_7d) THEN RDiv(hrv_today, hrv_7d)
                      ELSE RInt(1)
        hrv_score  == HrvScore(hrv_ratio)
        adj_stress == RMul(raw_stress, R(115, 100))
        stress_score == StressScore(adj_stress)
        final_score == Weighted(rhr_score, hrv_score, stress_score)
        veto == Veto(daily_status, final_score)
    IN  [daily_status |-> daily_status,
         target_date  |-> target_date,
         score    |-> RoundTo(veto.final_score, 10),
         veto_msg |-> veto.veto_msg,
         details  |->
            [rhr |-> [val |-> RoundTo(current_rhr, 10),
                      z_score |-> RoundTo(rhr_z, 100),
                      score |-> RoundTo(rhr_score, 10)],
             hrv |-> [val |-> RoundTo(hrv_today, 10),
                      avg_7d |-> RoundTo(hrv_7d, 10),
                      ratio |-> RoundTo(hrv_ratio, 100),
                      score |-> RoundTo(hrv_score, 10)],
             stress |-> [raw |-> RoundTo(raw_stress, 10),
                         adj |-> RoundTo(adj_stress, 10),
                         score |-> RoundTo(stress_score, 10)]],
         locals   |->
            [current_rhr |-> current_rhr, rhr_z |-> rhr_z,
             rhr_score |-> rhr_score, hrv_today |-> hrv_today,
             hrv_7d |-> hrv_7d, hrv_ratio |-> hrv_ratio,
             hrv_score |-> hrv_score, raw_stress |-> raw_stress,
             adj_stress |-> adj_stress, stress_score |-> stress_score,
             final_score |-> final_score]]

\* No score has been computed yet.
NoScore == [daily_status |-> "NONE"]

Statuses == {"GREEN", "YELLOW", "RED", "GRAY"}

\* One call of get_recovery_score on the current database.
Score(daily_status, target_date) ==
    /\ recovery' = get_recovery_score(daily_status, target_date)
    /\ UNCHANGED <<daily_summary, resting_hr, hrv, sleep, activities, verdict,
                   history, trends>>

(* -------------------- get_recovery_history_data --------------------- *)

\* A column value that is a text instead of a number.  AVG of SQLite takes
\* it for 0; in Python it is truthy, and its comparison with a float and
\* its division by a float raise TypeError.
TEXT == Some([n |-> 0, d |-> 1, text |-> TRUE])

\* calculate_metrics raises for the date: the rhr of its row is a text,
\* which "rhr > (BASELINE_RHR + 3)" cannot compare.
EvalRaises(target_date) ==
    LET row == Fetch(daily_summary, target_date)
    IN  row # << >> /\ row[1].rhr = TEXT

\* get_recovery_score raises for the date: last night's HRV of the date is
\* a text, which "hrv_today / hrv_7d" cannot divide.
ScoreRaises(target_date) ==
    LET row_hrv_today == Fetch(hrv, target_date)
    IN  row_hrv_today # << >> /\ row_hrv_today[1].last_night_avg = TEXT

\* Variant of DailyStatus: a failed evaluation counts as RED.
DailyStatus_Red(date) ==
    IF EvalRaises(date) THEN "RED" ELSE calculate_metrics(date).status

\* Step 1 of the loop body: the status of the date, GREEN when
\* calculate_metrics raises.
DailyStatus(date) ==
    IF EvalRaises(date) THEN "GREEN" ELSE calculate_metrics(date).status

\* What a returned score_data appends to the four score lists.
Entries(score_data) ==
    [recovery_score |-> <<Some(score_data.score)>>,
     rhr_score      |-> <<Some(score_data.details.rhr.score)>>,
     hrv_score      |-> <<Some(score_data.details.hrv.score)>>,
     stress_score   |-> <<Some(score_data.details.stress.score)>>]

\* Variant of ScoreEntries: a failed score appends nothing.
ScoreEntries_Skip(daily_status, current) ==
    IF ScoreRaises(current)
    THEN [recovery_score |-> << >>, rhr_score |-> << >>,
          hrv_score |-> << >>, stress_score |-> << >>]
    ELSE Entries(get_recovery_score(daily_status, current))

\* Step 2 of the loop body: what is appended to the four score lists, None
\* to each when get_recovery_score raises.
ScoreEntries(daily_status, current) ==
    IF ScoreRaises(current)
    THEN [recovery_score |-> <<NULL>>, rhr_score |-> <<NULL>>,
          hrv_score |-> <<NULL>>, stress_score |-> <<NULL>>]
    ELSE Entries(get_recovery_score(daily_status, current))

\* The five lists before the loop.
EmptyData ==
    [dates |-> << >>, recovery_score |-> << >>, rhr_score |-> << >>,
     hrv_score |-> << >>, stress_score |-> << >>]

\* No history request is running.  statuses holds the daily_status of
\* every date visited, a local of the loop body.
NoHistory ==
    [pc |-> "idle", days |-> 0, current |-> 0, end_date |-> 0,
     data |-> EmptyData, statuses |-> << >>]

\* get_recovery_history_data(days) up to the loop: today is the last day.
HistoryStart(days) ==
    /\ history.pc \in {"idle", "done"}
    /\ history' = [pc |-> "loop", days |-> days,
                   current |-> LastDay - (days - 1), end_date |-> LastDay,
                   data |-> EmptyData, statuses |-> << >>]
    /\ UNCHANGED <<daily_summary, resting_hr, hrv, sleep, activities, verdict,
                   recovery, trends>>

\* One pass of "while current <= end_date".
HistoryStep ==
    /\ history.pc = "loop"
    /\ history.current <= history.end_date
    /\ LET current      == history.current
           daily_status == DailyStatus(current)
           entries      == ScoreEntries(daily_status, current)
           data         == history.data
       IN  history' =
             [history EXCEPT
                !.data = [dates |-> Append(data.dates, current),
                          recovery_score |->
                              data.recovery_score \o entries.recovery_score,
                          rhr_score |-> data.rhr_score \o entries.rhr_score,
                          hrv_score |-> data.hrv_score \o entries.hrv_score,
                          stress_score |->
                              data.stress_score \o entries.stress_score],
                !.statuses = Append(history.statuses, daily_status),
                !.current = current + 1]
    /\ UNCHANGED <<daily_summary, resting_hr, hrv, sleep, activities, verdict,
                   recovery, trends>>

\* The loop condition fails: data is returned.
HistoryReturn ==
    /\ history.pc = "loop"
    /\ history.current > history.end_date
    /\ history' = [history EXCEPT !.pc = "done"]
    /\ UNCHANGED <<daily_summary, resting_hr, hrv, sleep, activities, verdict,
                   recovery, trends>>

(* -------------------------- get_trend_data -------------------------- *)

\* fetchall() of "SELECT ... FROM daily_summary WHERE day BETWEEN ? AND ?
\* ORDER BY day DESC": the days of the window that have a row, the latest
\* first. A row is named by its day.
RECURSIVE RowsDesc(_, _)
RowsDesc(start_date, end_date) ==
    IF end_date < start_date THEN << >>
    ELSE (IF Fetch(daily_summary, end_date) # << >> THEN <<end_date>>
          ELSE << >>)
         \o RowsDesc(start_date, end_date - 1)

\* get_val: a column of a row, 0 for None; "hrv" is looked up in hrv_map,
\* which holds the truthy last_night_avg of the days of the window.
get_val(r, key) ==
    IF key = "hrv"
    THEN LET h == Fetch(hrv, r)
         IN  IF h # << >> /\ Truthy(h[1].last_night_avg)
             THEN h[1].last_night_avg[1] ELSE RInt(0)
    ELSE LET v == daily_summary[r][1][key]
         IN  IF v # NULL THEN v[1] ELSE RInt(0)

\* sum([get_val(r, key) for r in three_rows]) / 3
Mean3(three_rows, key) ==
    RDiv(RAdd(RAdd(get_val(three_rows[1], key), get_val(three_rows[2], key)),
              get_val(three_rows[3], key)),
         RInt(3))

\* Variant of Trend7d: five rows are enough.
Trend7d_FiveRows(rows, key) ==
    IF Len(rows) >= 5
    THEN RoundTo(RSub(Mean3(SubSeq(rows, 1, 3), key),
                      Mean3(SubSeq(rows, Len(rows) - 2, Len(rows)), key)),
                 10)
    ELSE RInt(0)

\* The 7-day trend: with six rows or more, the mean of rows[:3] minus the
\* mean of rows[-3:], rounded to one decimal; 0 otherwise.
Trend7d(rows, key) ==
    IF Len(rows) >= 6
    THEN RoundTo(RSub(Mean3(SubSeq(rows, 1, 3), key),
                      Mean3(SubSeq(rows, Len(rows) - 2, Len(rows)), key)),
                 10)
    ELSE RInt(0)

\* The 3-day trend: with more than three rows, rows[0] minus rows[3];
\* 0 otherwise.
Trend3d(rows, key) ==
    IF Len(rows) > 3
    THEN RSub(get_val(rows[1], key), get_val(rows[4], key))
    ELSE RInt(0)

\* One signal of the trends dictionary.
Signal(rows, key) ==
    [trend_7d |-> Trend7d(rows, key), trend_3d |-> Trend3d(rows, key),
     val |-> get_val(rows[1], key)]

\* The label of a day in recent_costs, now being the day of the call.
CostLabel(d, now) ==
    IF d = now THEN <<"Today">>
    ELSE IF d = now - 1 THEN <<"Yesterday">>
    ELSE DayText(d)

\* One entry of recent_costs: calories per 1000 steps of a row.
RecentCost(r, now) ==
    LET cals  == get_val(r, "calories_active")
        steps == get_val(r, "steps")
        cost  == IF RLt(RInt(0), steps)
                 THEN RMul(RDiv(cals, steps), RInt(1000)) ELSE RInt(0)
    IN  [label |-> CostLabel(r, now), cost |-> Trunc(cost),
         status |-> IF RLt(cost, RInt(30)) THEN "GREEN"
                    ELSE IF RLt(RInt(50), cost) THEN "RED" ELSE "YELLOW"]

\* The trends dictionary before any row is read.
ZeroSignal == [trend_7d |-> RInt(0), trend_3d |-> RInt(0), val |-> RInt(0)]

\* The number of days of the trend window (the default of "days").
TrendDays == 7

\* get_trend_data(conn, target_date) with days = 7, called on the day now.
get_trend_data(target_date, now) ==
    LET rows == RowsDesc(target_date - (TrendDays - 1), target_date)
    IN  IF rows = << >>
        THEN [target_date |-> target_date, rows |-> rows,
              rhr |-> ZeroSignal, batt |-> ZeroSignal,
              stress |-> ZeroSignal, hrv |-> ZeroSignal,
              recent_costs |-> << >>]
        ELSE [target_date |-> target_date, rows |-> rows,
              rhr |-> Signal(rows, "rhr"), batt |-> Signal(rows, "bb_max"),
              stress |-> Signal(rows, "stress_avg"),
              hrv |-> Signal(rows, "hrv"),
              recent_costs |->
                  [i \in 1 .. (IF Len(rows) < 3 THEN Len(rows) ELSE 3) |->
                      RecentCost(rows[i], now)]]

\* No trends have been computed yet.
NoTrends ==
    [target_date |-> -1, rows |-> << >>, rhr |-> ZeroSignal,
     batt |-> ZeroSignal, stress |-> ZeroSignal, hrv |-> ZeroSignal,
     recent_costs |-> << >>]

\* One call of get_trend_data on the current database.
Trend(target_date, now) ==
    /\ trends' = get_trend_data(target_date, now)
    /\ UNCHANGED <<daily_summary, resting_hr, hrv, sleep, activities, verdict,
                   recovery, history>>

(* ----------------------- get_dashboard_context ---------------------- *)

\* The Crash Predictor panel that get_dashboard_context derives from the
\* reason of the verdict of calculate_metrics.
crash_status(metrics_raw) ==
    IF \/ Contains(metrics_raw.reason, <<"sensory", "deprivation">>)
       \/ Contains(metrics_raw.reason, <<"Sensory", "Overload">>)
    THEN [status |-> "RED",
          msg |-> <<"Lag", "-", "2", "Risk", ":", "Sensory", "Overload">>]
    ELSE IF Contains(metrics_raw.reason, <<"Lag", "2">>)
    THEN [status |-> "RED",
          msg |-> <<"High", "Load", "48h", "ago", "(", ">", "5k", "steps",
                    ")">>]
    ELSE [status |-> "GREEN",
          msg |-> <<"No", "Lag", "-", "2", "Risk", "Detected">>]

(* ----------------------- evaluation scenarios ----------------------- *)

\* A present integer column value.
N(i) == Some(RInt(i))

\* Rows of the target day: resting heart rate below 48.1, inside the band
\* and above 53.6; battery below and above 50; a clean day, a costly day
\* (50 kcal per 1000 steps), an idle stressed day with and without a high
\* cost.
TargetRows ==
    { <<Row(rhr, NULL, bb, st, sp, ca)>> :
        rhr \in {NULL, N(47), N(50), N(55)},
        bb  \in {NULL, N(40), N(55)},
        <<sp, st, ca>> \in { <<N(4000), N(30), N(100)>>,
                             <<N(4000), N(30), N(200)>>,
                             <<N(800),  N(45), N(100)>>,
                             <<N(800),  N(45), N(20)>> } }

\* Rows of the day before: within limits, costly, above the volume limit.
T1Rows ==
    { <<Row(NULL, NULL, NULL, NULL, sp, ca)>> :
        <<sp, ca>> \in { <<N(2000), N(100)>>, <<N(2000), N(400)>>,
                         <<N(4000), N(100)>> } }

\* Rows of two days before: sensory overload, high load, combined risk,
\* clean; with and without a heart-rate spike.
T2Rows ==
    { <<Row(NULL, hm, NULL, st, sp, NULL)>> :
        <<sp, st, hm>> \in { <<N(500),  N(45), N(100)>>,
                             <<N(6000), N(25), N(100)>>,
                             <<N(6000), N(25), N(120)>>,
                             <<N(4000), N(45), N(100)>>,
                             <<N(3000), N(25), N(100)>>,
                             <<N(3000), N(25), N(120)>> } }

\* A night of twelve hours: the recharge ratio of 55 % is below 5.
SleepRows == { <<[total_sleep |-> Some(Time(12, 0, 0))]>> }

\* Activities of the day before the last day: a slow walk, and a slow
\* activity that is neither walking nor hiking.
ActRows ==
    { [day |-> LastDay - 1, walk |-> TRUE,  avg_cadence |-> N(80)],
      [day |-> LastDay - 1, walk |-> FALSE, avg_cadence |-> N(80)] }

\* All sequences over S of length at most n.
RECURSIVE SeqsUpTo(_, _)
SeqsUpTo(S, n) ==
    IF n = 0 THEN { << >> }
    ELSE LET shorter == SeqsUpTo(S, n - 1)
         IN  shorter \cup { Append(q, x) : q \in shorter, x \in S }

NoRows == [d \in Days |-> << >>]

\* The database holds rows for the last three days only.
InitEval ==
    /\ \E rT \in TargetRows \cup {<< >>},
          r1 \in T1Rows \cup {<< >>},
          r2 \in T2Rows \cup {<< >>} :
          daily_summary =
              [d \in Days |-> IF d = LastDay THEN rT
                              ELSE IF d = LastDay - 1 THEN r1
                              ELSE IF d = LastDay - 2 THEN r2
                              ELSE << >>]
    /\ \E s \in SleepRows \cup {<< >>} :
          sleep = [d \in Days |-> IF d = LastDay THEN s ELSE << >>]
    /\ activities \in SeqsUpTo(ActRows, MaxActs)
    /\ resting_hr = NoRows
    /\ hrv = NoRows
    /\ verdict = NoVerdict
    /\ recovery = NoScore
    /\ history = NoHistory
    /\ trends = NoTrends

\* The dates that are evaluated: the last three days.
EvalDates == { d \in Days : d >= LastDay - 2 }

NextEval == \E target_date \in EvalDates : Evaluate(target_date)

SpecEval == InitEval /\ [][NextEval]_vars

(* -------------------------- gap scenarios --------------------------- *)

\* Target rows with null and zero columns: everything null; one column
\* only; steps without stress and stress without steps; zero steps under
\* stress; steps without calories and calories without steps; everything
\* zero; a complete clean row.
GapTargetRows ==
    { <<Row(rhr, NULL, bb, st, sp, ca)>> :
        <<rhr, bb, st, sp, ca>> \in
            { <<NULL,  NULL,  NULL,  NULL,    NULL>>,
              <<N(55), NULL,  NULL,  NULL,    NULL>>,
              <<NULL,  N(40), NULL,  NULL,    NULL>>,
              <<NULL,  NULL,  NULL,  N(800),  NULL>>,
              <<NULL,  NULL,  N(45), NULL,    NULL>>,
              <<NULL,  NULL,  N(45), N(0),    NULL>>,
              <<NULL,  NULL,  NULL,  N(4000), NULL>>,
              <<NULL,  NULL,  NULL,  NULL,    N(200)>>,
              <<N(0),  N(0),  N(0),  N(0),    N(0)>>,
              <<N(50), N(55), N(30), N(4000), N(100)>> } }

\* Rows of the day before with null and zero columns.
GapT1Rows ==
    { <<Row(NULL, NULL, NULL, NULL, sp, ca)>> :
        <<sp, ca>> \in { <<NULL, NULL>>, <<NULL, N(400)>>, <<N(0), N(400)>>,
                         <<N(2000), NULL>>, <<N(2000), N(400)>>,
                         <<N(4000), NULL>> } }

\* Rows of two days before with null columns.
GapT2Rows ==
    { <<Row(NULL, hm, NULL, st, sp, NULL)>> :
        <<sp, st, hm>> \in { <<NULL,    NULL,  NULL>>,
                             <<N(6000), NULL,  NULL>>,
                             <<NULL,    N(45), NULL>>,
                             <<N(500),  N(45), NULL>>,
                             <<NULL,    NULL,  N(120)>>,
                             <<N(4000), N(45), N(120)>> } }

\* Sleep rows: total_sleep null, twelve hours, and a text that is no time
\* of day.
GapSleepRows ==
    { <<[total_sleep |-> NULL]>>,
      <<[total_sleep |-> Some(Time(12, 0, 0))]>>,
      <<[total_sleep |-> Some(Time(25, 0, 0))]>> }

\* Walks of the day before the last day: cadence null, zero, slow.
GapActRows ==
    { [day |-> LastDay - 1, walk |-> TRUE, avg_cadence |-> c] :
        c \in {NULL, N(0), N(80)} }

InitGaps ==
    /\ \E rT \in GapTargetRows,
          r1 \in GapT1Rows \cup {<< >>},
          r2 \in GapT2Rows \cup {<< >>} :
          daily_summary =
              [d \in Days |-> IF d = LastDay THEN rT
                              ELSE IF d = LastDay - 1 THEN r1
                              ELSE IF d = LastDay - 2 THEN r2
                              ELSE << >>]
    /\ \E s \in GapSleepRows \cup {<< >>} :
          sleep = [d \in Days |-> IF d = LastDay THEN s ELSE << >>]
    /\ activities \in {<< >>} \cup { <<a>> : a \in GapActRows }
    /\ resting_hr = NoRows
    /\ hrv = NoRows
    /\ verdict = NoVerdict
    /\ recovery = NoScore
    /\ history = NoHistory
    /\ trends = NoTrends

SpecGaps == InitGaps /\ [][NextEval]_vars

(* ------------------------- gate 1 scenarios ------------------------- *)

\* Resting heart rates of the target row: none, far below, next to and at
\* 48.1, the baseline, at and next to 53.6, far above.
Gate1Rhrs ==
    { NULL, N(45), Some(R(480, 10)), Some(R(481, 10)), Some(R(482, 10)),
      Some(R(506, 10)), Some(R(535, 10)), Some(R(536, 10)), Some(R(537, 10)),
      N(60) }

InitGate1 ==
    /\ \E rhr \in Gate1Rhrs, bb \in {NULL, N(40)},
          r1 \in T1Rows \cup {<< >>} :
          daily_summary =
              [d \in Days |->
                  IF d = LastDay
                  THEN <<Row(rhr, NULL, bb, N(30), N(4000), N(100))>>
                  ELSE IF d = LastDay - 1 THEN r1
                  ELSE << >>]
    /\ sleep = NoRows
    /\ activities = << >>
    /\ resting_hr = NoRows
    /\ hrv = NoRows
    /\ verdict = NoVerdict
    /\ recovery = NoScore
    /\ history = NoHistory
    /\ trends = NoTrends

SpecGate1 == InitGate1 /\ [][NextEval]_vars

(* -------------------------- risk scenarios -------------------------- *)

\* Rows of two days before around the composite risk of 1.5: 2000 steps
\* with stress 35 and 4000 steps with stress 17.5 are exactly 1.5; maximum
\* heart rates at and above 110.
RiskT2Rows ==
    { <<Row(NULL, hm, NULL, st, sp, NULL)>> :
        sp \in {NULL, N(2000), N(4000), N(5000), N(6000)},
        st \in {NULL, Some(R(35, 2)), N(18), N(35), N(45)},
        hm \in {NULL, N(110), N(111)} }

InitRisk ==
    /\ \E bb \in {NULL, N(40)}, r2 \in RiskT2Rows \cup {<< >>} :
          daily_summary =
              [d \in Days |->
                  IF d = LastDay
                  THEN <<Row(N(50), NULL, bb, N(25), N(3000), N(60))>>
                  ELSE IF d = LastDay - 2 THEN r2
                  ELSE << >>]
    /\ sleep = NoRows
    /\ activities = << >>
    /\ resting_hr = NoRows
    /\ hrv = NoRows
    /\ verdict = NoVerdict
    /\ recovery = NoScore
    /\ history = NoHistory
    /\ trends = NoTrends

SpecRisk == InitRisk /\ [][NextEval]_vars

(* -------------------------- cost scenarios -------------------------- *)

\* Target rows around the cost limit of 34.8 calories per 1000 steps:
\* 174 calories on 5000 steps are exactly 34.8; steps and calories absent
\* and zero.
CostTargetRows ==
    { <<Row(N(50), NULL, bb, N(30), sp, ca)>> :
        bb \in {NULL, N(40)},
        sp \in {NULL, N(0), N(1000), N(5000)},
        ca \in {NULL, N(0), N(34), N(35), N(174), N(175)} }

InitCost ==
    /\ \E rT \in CostTargetRows, r1 \in T1Rows \cup {<< >>} :
          daily_summary =
              [d \in Days |-> IF d = LastDay THEN rT
                              ELSE IF d = LastDay - 1 THEN r1
                              ELSE << >>]
    /\ sleep = NoRows
    /\ activities = << >>
    /\ resting_hr = NoRows
    /\ hrv = NoRows
    /\ verdict = NoVerdict
    /\ recovery = NoScore
    /\ history = NoHistory
    /\ trends = NoTrends

SpecCost == InitCost /\ [][NextEval]_vars

(* ------------------------ cadence scenarios ------------------------- *)

\* Activities: walks of the day before the last day with cadence absent,
\* 0, 80, 94 and 95, a slow activity of that day that is no walk, and a
\* slow walk of the last day itself.
CadenceActs ==
    { [day |-> LastDay - 1, walk |-> TRUE, avg_cadence |-> c] :
        c \in {NULL, N(0), N(80), N(94), N(95)} }
    \cup { [day |-> LastDay - 1, walk |-> FALSE, avg_cadence |-> N(80)],
           [day |-> LastDay, walk |-> TRUE, avg_cadence |-> N(80)] }

\* At most two activities; the last two days have a clean row or one that
\* raises a red flag.
InitCadence ==
    /\ \E bb \in {NULL, N(40)} :
          daily_summary =
              [d \in Days |->
                  IF d >= LastDay - 1
                  THEN <<Row(N(50), NULL, bb, N(30), N(3000), N(60))>>
                  ELSE << >>]
    /\ activities \in {<< >>} \cup { <<a>> : a \in CadenceActs }
                      \cup { <<a, b>> : a \in CadenceActs, b \in CadenceActs }
    /\ sleep = NoRows
    /\ resting_hr = NoRows
    /\ hrv = NoRows
    /\ verdict = NoVerdict
    /\ recovery = NoScore
    /\ history = NoHistory
    /\ trends = NoTrends

SpecCadence == InitCadence /\ [][NextEval]_vars

(* ------------------------- sync scenarios -------------------------- *)

\* The /sync route runs the import script, which rewrites the row of a
\* recent day.
Sync(day, row) ==
    /\ daily_summary' = [daily_summary EXCEPT ![day] = row]
    /\ UNCHANGED <<resting_hr, hrv, sleep, activities, verdict, recovery,
                   history, trends>>

\* Rows that a sync writes: sensory overload (800 steps, stress 45), high
\* load with a heart-rate spike, combined risk, and a clean day.
SyncRows ==
    { <<Row(NULL, hm, NULL, st, sp, NULL)>> :
        <<sp, st, hm>> \in { <<N(800),  N(45), N(100)>>,
                             <<N(6000), N(25), N(120)>>,
                             <<N(4000), N(45), N(100)>>,
                             <<N(3000), N(25), N(100)>> } }

\* The days a sync rewrites: the last day and the day before.
SyncDays == { d \in Days : d >= LastDay - 1 }

\* The last day holds a clean row, the day before a clean row or none, the
\* day before that any row of T2Rows or none.
InitLag ==
    /\ \E r1 \in { <<Row(NULL, N(100), NULL, N(25), N(3000), NULL)>>, << >> },
          r2 \in T2Rows \cup {<< >>} :
          daily_summary =
              [d \in Days |->
                  IF d = LastDay
                  THEN <<Row(NULL, N(100), NULL, N(25), N(3000), NULL)>>
                  ELSE IF d = LastDay - 1 THEN r1
                  ELSE IF d = LastDay - 2 THEN r2
                  ELSE << >>]
    /\ sleep = NoRows
    /\ activities = << >>
    /\ resting_hr = NoRows
    /\ hrv = NoRows
    /\ verdict = NoVerdict
    /\ recovery = NoScore
    /\ history = NoHistory
    /\ trends = NoTrends

NextLag ==
    \/ \E target_date \in EvalDates : Evaluate(target_date)
    \/ \E day \in SyncDays, row \in SyncRows : Sync(day, row)

SpecLag == InitLag /\ [][NextLag]_vars

(* ------------------------ scoring scenarios ------------------------- *)

\* A present real column value n/d.
X(n, d) == Some(R(n, d))

RhrRow(v) == <<[resting_heart_rate |-> v]>>

HrvRow(v) == <<[last_night_avg |-> v]>>

StressRow(v) == <<Row(NULL, NULL, NULL, v, NULL, NULL)>>

\* The table that holds row on day and nothing else.
OneRow(day, row) == [d \in Days |-> IF d = day THEN row ELSE << >>]

\* The table that holds two rows.
TwoRows(day1, row1, day2, row2) ==
    [d \in Days |-> IF d = day1 THEN row1
                    ELSE IF d = day2 THEN row2 ELSE << >>]

\* The dates that are scored: the last two days.
ScoreDates == { d \in Days : d >= LastDay - 1 }

\* Every signal absent, null, zero, ordinary or extreme.
InitScore ==
    /\ \E r \in {<< >>} \cup { RhrRow(v) :
                v \in {NULL, N(0), N(45), X(5061, 100), N(52), N(55),
                       N(200)} } :
          resting_hr = OneRow(LastDay, r)
    /\ \E h1 \in {<< >>} \cup { HrvRow(v) :
                v \in {NULL, N(0), N(35), N(50), N(70), N(200)} },
          h0 \in {<< >>} \cup { HrvRow(v) : v \in {N(30), N(65)} } :
          hrv = TwoRows(LastDay, h1, LastDay - 1, h0)
    /\ \E st \in {<< >>} \cup { StressRow(v) :
                v \in {NULL, N(0), N(30), N(45), N(80), N(500)} } :
          daily_summary = OneRow(LastDay, st)
    /\ sleep = NoRows
    /\ activities = << >>
    /\ verdict = NoVerdict
    /\ recovery = NoScore
    /\ history = NoHistory
    /\ trends = NoTrends

NextScore ==
    \E daily_status \in Statuses, target_date \in ScoreDates :
        Score(daily_status, target_date)

SpecScore == InitScore /\ [][NextScore]_vars

(* ------------------------ history scenarios ------------------------- *)

\* Rows of the last three days: a clean day, a day of sensory overload
\* (RED), and a day whose rhr is a text.
HistoryRows ==
    { <<Row(N(50), NULL, N(55), N(30), N(4000), N(100))>>,
      <<Row(N(50), NULL, N(55), N(45), N(800), N(100))>>,
      <<Row(TEXT, NULL, N(55), N(30), N(4000), N(100))>> }

\* Last night's HRV of the last three days: 50 or a text.
HistoryHrvRows == { HrvRow(N(50)), HrvRow(TEXT) }

InitHistory ==
    /\ \E r0 \in HistoryRows, r1 \in HistoryRows, r2 \in HistoryRows :
          daily_summary =
              [d \in Days |-> IF d = LastDay THEN r0
                              ELSE IF d = LastDay - 1 THEN r1
                              ELSE IF d = LastDay - 2 THEN r2
                              ELSE << >>]
    /\ \E h0 \in HistoryHrvRows, h1 \in HistoryHrvRows, h2 \in HistoryHrvRows :
          hrv = [d \in Days |-> IF d = LastDay THEN h0
                                ELSE IF d = LastDay - 1 THEN h1
                                ELSE IF d = LastDay - 2 THEN h2
                                ELSE << >>]
    /\ sleep = NoRows
    /\ activities = << >>
    /\ resting_hr = NoRows
    /\ verdict = NoVerdict
    /\ recovery = NoScore
    /\ history = NoHistory
    /\ trends = NoTrends

NextHistory ==
    \/ \E days \in 1 .. MaxHistoryDays : HistoryStart(days)
    \/ HistoryStep
    \/ HistoryReturn

SpecHistory == InitHistory /\ [][NextHistory]_vars

(* ------------------------- window scenarios ------------------------- *)

\* A table with rows on the last day, seven days before it and eight days
\* before it, << >> standing for no row.
ThreeRows(row0, row7, row8) ==
    [d \in Days |-> IF d = LastDay THEN row0
                    ELSE IF d = LastDay - 7 THEN row7
                    ELSE IF d = LastDay - 8 THEN row8
                    ELSE << >>]

\* Baseline values on the last day, and far-off values seven and eight
\* days earlier.
InitWindow ==
    /\ \E r0 \in {<< >>, RhrRow(X(5061, 100))},
          r7 \in {<< >>, RhrRow(N(60))}, r8 \in {<< >>, RhrRow(N(60))} :
          resting_hr = ThreeRows(r0, r7, r8)
    /\ \E h0 \in {<< >>, HrvRow(N(50))},
          h7 \in {<< >>, HrvRow(N(30))}, h8 \in {<< >>, HrvRow(N(30))} :
          hrv = ThreeRows(h0, h7, h8)
    /\ \E s0 \in {<< >>, StressRow(N(30))},
          s7 \in {<< >>, StressRow(N(80))}, s8 \in {<< >>, StressRow(N(80))} :
          daily_summary = ThreeRows(s0, s7, s8)
    /\ sleep = NoRows
    /\ activities = << >>
    /\ verdict = NoVerdict
    /\ recovery = NoScore
    /\ history = NoHistory
    /\ trends = NoTrends

SpecWindow == InitWindow /\ [][NextScore]_vars

(* -------------------------- trend scenarios ------------------------- *)

\* The daily_summary row of a day: every signal rises from day to day, or
\* (sparse) some columns are null or zero on some days.
TrendRow(d, sparse) ==
    <<[Row(IF sparse /\ d % 2 = 1 THEN NULL ELSE N(50 + d), NULL, NULL,
           N(30 + 3 * d),
           IF sparse /\ d % 3 = 0 THEN N(0) ELSE N(4000),
           N(100 + 20 * d))
       EXCEPT !.bb_max = IF sparse THEN NULL ELSE N(60 + 2 * d)]>>

\* Any set of days has a daily_summary row; the HRV of one day may be
\* missing or zero.
InitTrend ==
    /\ \E present \in SUBSET Days, sparse \in BOOLEAN :
          daily_summary =
              [d \in Days |-> IF d \in present THEN TrendRow(d, sparse)
                              ELSE << >>]
    /\ \E gap \in {-1, LastDay - 3, LastDay}, zero \in {-1, LastDay - 1} :
          hrv = [d \in Days |-> IF d = gap THEN << >>
                                ELSE IF d = zero THEN HrvRow(N(0))
                                ELSE HrvRow(N(40 + d))]
    /\ resting_hr = NoRows
    /\ sleep = NoRows
    /\ activities = << >>
    /\ verdict = NoVerdict
    /\ recovery = NoScore
    /\ history = NoHistory
    /\ trends = NoTrends

\* The dashboard of one of the last two days is opened on the last day or
\* on the day after it.
NextTrend ==
    \E target_date \in {LastDay - 1, LastDay}, now \in {LastDay, LastDay + 1} :
        Trend(target_date, now)

SpecTrend == InitTrend /\ [][NextTrend]_vars

(* ---------------------- sub-score scenarios ------------------------- *)

\* Resting heart rates on both sides of the baseline 50.61: at and next to
\* the segment borders (0.5 sd = 0.89, 1.5 sd = 2.67) and far out.
RhrValues ==
    { X(4500, 100), X(4793, 100), X(4794, 100), X(4971, 100), X(4972, 100),
      X(5061, 100), X(5100, 100), X(5150, 100), X(5151, 100), X(5200, 100),
      X(5328, 100), X(5329, 100), X(5500, 100), X(5800, 100) }

\* The resting_hr table holds the last day and at most the day before.
InitRhr ==
    /\ \E r1 \in { RhrRow(v) : v \in RhrValues },
          r0 \in {<< >>} \cup { RhrRow(v) : v \in {N(50), N(53)} } :
          resting_hr = TwoRows(LastDay, r1, LastDay - 1, r0)
    /\ hrv = NoRows
    /\ daily_summary = NoRows
    /\ sleep = NoRows
    /\ activities = << >>
    /\ verdict = NoVerdict
    /\ recovery = NoScore
    /\ history = NoHistory
    /\ trends = NoTrends

SpecRhr == InitRhr /\ [][NextScore]_vars

\* Last-night HRV values and values of the night before, so that the ratio
\* to their average is at, next to and far from 0.9 and 1.2.
HrvValues ==
    { N(20), N(35), N(40), N(45), N(47), N(50), N(55), N(60), N(65), N(70),
      N(80), N(100) }

\* The hrv table holds the last day and at most the day before.
InitHrv ==
    /\ \E h1 \in { HrvRow(v) : v \in HrvValues },
          h0 \in {<< >>} \cup
                 { HrvRow(v) : v \in {N(20), N(30), N(40), N(50), N(55), N(65)} } :
          hrv = TwoRows(LastDay, h1, LastDay - 1, h0)
    /\ resting_hr = NoRows
    /\ daily_summary = NoRows
    /\ sleep = NoRows
    /\ activities = << >>
    /\ verdict = NoVerdict
    /\ recovery = NoScore
    /\ history = NoHistory
    /\ trends = NoTrends

SpecHrv == InitHrv /\ [][NextScore]_vars

(* ------------------------------ claims ------------------------------ *)

\* An evaluation has returned.
Evaluated == verdict.status # "NONE"

\* A score has been returned.
Scored == recovery.daily_status # "NONE"

\* The daily_summary row of the evaluated date is absent.
TargetRowAbsent == Fetch(daily_summary, verdict.target_date) = << >>

\* C1: a target date without a daily-summary row gets status GRAY, step
\* ceiling 0 and no flag, whatever the sleep table, the rows of T-1 and T-2
\* and the activities table hold.
C1_GrayWhenNoRow ==
    (Evaluated /\ TargetRowAbsent) =>
        /\ verdict.status = "GRAY"
        /\ verdict.target_steps = 0
        /\ verdict.red_flags = << >>
        /\ verdict.warnings = << >>

\* C1 witness: GRAY for the last day while T-1, T-2, the sleep row and an
\* activity of the day before all exist.
C1_Witness ==
    /\ verdict.status = "GRAY"
    /\ verdict.target_date = LastDay
    /\ daily_summary[LastDay] = << >>
    /\ daily_summary[LastDay - 1] # << >>
    /\ daily_summary[LastDay - 2] # << >>
    /\ sleep[LastDay] # << >>
    /\ activities # << >>

\* C2: with a daily-summary row, the verdict is RED with ceiling 1500
\* exactly when a red flag was raised, whatever the warnings; otherwise
\* YELLOW with ceiling 3000 exactly when a warning was raised; otherwise
\* GREEN with ceiling 4500.
C2_StatusFromFlags ==
    (Evaluated /\ ~TargetRowAbsent) =>
        /\ (verdict.status = "RED") <=> (verdict.red_flags # << >>)
        /\ (verdict.status = "YELLOW") <=>
              (verdict.red_flags = << >> /\ verdict.warnings # << >>)
        /\ (verdict.status = "GREEN") <=>
              (verdict.red_flags = << >> /\ verdict.warnings = << >>)
        /\ verdict.status = "RED" => verdict.target_steps = 1500
        /\ verdict.status = "YELLOW" => verdict.target_steps = 3000
        /\ verdict.status = "GREEN" => verdict.target_steps = 4500
        /\ verdict.status \in {"RED", "YELLOW", "GREEN"}

\* C2 witness: High RHR raised together with Inefficient Movement, and the
\* verdict is RED.
C2_Witness ==
    /\ verdict.status = "RED"
    /\ verdict.target_steps = 1500
    /\ \E i \in 1 .. Len(verdict.red_flags) :
          Contains(verdict.red_flags[i], <<"High", "RHR">>)
    /\ \E i \in 1 .. Len(verdict.warnings) :
          Contains(verdict.warnings[i], <<"Inefficient", "Movement">>)

\* C3: with verdictStatus RED the final score is exactly 40 and the veto
\* message is not null, whatever the raw composite.
C3_RedVeto ==
    (Scored /\ recovery.daily_status = "RED") =>
        /\ recovery.score = RInt(40)
        /\ recovery.veto_msg # NULL

\* C3 witness: RED on data whose raw composite is below 40.
C3_Witness ==
    /\ Scored
    /\ recovery.daily_status = "RED"
    /\ RLt(recovery.locals.final_score, RInt(40))
    /\ recovery.score = RInt(40)

\* C4: with verdictStatus YELLOW the final score is 75 when the raw
\* composite exceeds 75, and the raw composite rounded to one decimal
\* otherwise.
C4_YellowClamp ==
    (Scored /\ recovery.daily_status = "YELLOW") =>
        IF RLt(RInt(75), recovery.locals.final_score)
        THEN recovery.score = RInt(75)
        ELSE recovery.score = RoundTo(recovery.locals.final_score, 10)

\* C4 witness: YELLOW on data whose raw composite is above 75.
C4_Witness ==
    /\ Scored
    /\ recovery.daily_status = "YELLOW"
    /\ RLt(RInt(75), recovery.locals.final_score)
    /\ recovery.score = RInt(75)

\* C5: GREEN and GRAY return the rounded raw composite and no veto
\* message; the veto message is not null exactly for RED, and for YELLOW
\* with a raw composite above 75.
C5_NoOverride ==
    Scored =>
        /\ recovery.daily_status \in {"GREEN", "GRAY"} =>
              /\ recovery.score = RoundTo(recovery.locals.final_score, 10)
              /\ recovery.veto_msg = NULL
        /\ (recovery.veto_msg # NULL) <=>
              \/ recovery.daily_status = "RED"
              \/ /\ recovery.daily_status = "YELLOW"
                 /\ RLt(RInt(75), recovery.locals.final_score)

\* C5 witness: GRAY on data whose raw composite is above 75 keeps it.
C5_Witness ==
    /\ Scored
    /\ recovery.daily_status = "GRAY"
    /\ RLt(RInt(75), recovery.locals.final_score)
    /\ recovery.score = RoundTo(recovery.locals.final_score, 10)
    /\ recovery.veto_msg = NULL

InRange(x) == RLe(RInt(0), x) /\ RLe(x, RInt(100))

\* C6: the returned score and the three returned sub-scores lie in
\* [0, 100] for present, absent, zero and extreme inputs and every status.
C6_ScoresInRange ==
    Scored =>
        /\ InRange(recovery.score)
        /\ InRange(recovery.details.rhr.score)
        /\ InRange(recovery.details.hrv.score)
        /\ InRange(recovery.details.stress.score)

\* C6 witness: an extreme resting heart rate (200), an HRV of 200 over an
\* average of 115 and a stress of 500, each sub-score held at the floor.
C6_Witness ==
    /\ Scored
    /\ recovery.locals.current_rhr = RInt(200)
    /\ recovery.locals.raw_stress = RInt(500)
    /\ recovery.locals.hrv_today = RInt(200)
    /\ recovery.details.rhr.score = RInt(0)
    /\ recovery.details.hrv.score = RInt(0)
    /\ recovery.details.stress.score = RInt(0)

\* The text by which a raised red flag shows in a reason: the flag itself,
\* or for the sensory-load flag the text that stands for it.
Visible(flag, reason) ==
    \/ Contains(reason, flag)
    \/ flag = SensoryFlag /\ Contains(reason, <<"System", "is", "idling", "high">>)

\* C7: when a red flag is raised, the reason shows every red flag raised
\* for the date.
C7_RedFlagsVisible ==
    (Evaluated /\ verdict.red_flags # << >>) =>
        \A i \in 1 .. Len(verdict.red_flags) :
            Visible(verdict.red_flags[i], verdict.reason)

\* C8: the text of every warning raised for the date appears in the
\* reason, whatever the other gates raise.
C8_WarningsVisible ==
    Evaluated =>
        \A i \in 1 .. Len(verdict.warnings) :
            Contains(verdict.reason, verdict.warnings[i])

\* |z| of a 7-day average resting heart rate.
AbsZ(avg_rhr) == RAbs(RDiv(RSub(avg_rhr, R(5061, 100)), R(178, 100)))

\* C9: the RHR sub-score is 100 for |z| <= 0.5, 100 - (|z| - 0.5) * 30 for
\* 0.5 < |z| <= 1.5 and max(0, 70 - (|z| - 1.5) * 50) above; it never rises
\* as |z| grows, the segment borders included.
C9_RhrCurve ==
    Scored =>
        LET z == AbsZ(recovery.locals.current_rhr)
            s == recovery.locals.rhr_score
            critical == RSub(RInt(70), RMul(RSub(z, R(3, 2)), RInt(50)))
        IN  /\ RLe(z, R(1, 2)) => s = RInt(100)
            /\ (RLt(R(1, 2), z) /\ RLe(z, R(3, 2))) =>
                  s = RSub(RInt(100), RMul(RSub(z, R(1, 2)), RInt(30)))
            /\ RLt(R(3, 2), z) =>
                  s = (IF RLt(critical, RInt(0)) THEN RInt(0) ELSE critical)
            /\ \A k \in 0 .. MaxZ20 :
                  /\ RLe(z, R(k, 20)) => RLe(RhrScore(R(k, 20)), s)
                  /\ RLe(R(k, 20), z) => RLe(s, RhrScore(R(k, 20)))

\* C9 witness: an average of 53.28 is |z| = 1.5, the border of the warning
\* and the critical segment, and scores 70.
C9_Witness ==
    /\ Scored
    /\ recovery.locals.current_rhr = R(5328, 100)
    /\ AbsZ(recovery.locals.current_rhr) = R(3, 2)
    /\ recovery.locals.rhr_score = RInt(70)

\* C10: the HRV sub-score is 100 for 0.9 <= ratio <= 1.2,
\* max(0, 100 - (ratio - 1.2) * 250) above and
\* max(0, 100 - (0.9 - ratio) * 500) below; it never rises as the ratio
\* moves away from the band, and at equal distance from the band a deficit
\* never scores higher than an excess (0.7 scores below 1.4).
C10_HrvCurve ==
    Scored =>
        LET r == recovery.locals.hrv_ratio
            s == recovery.locals.hrv_score
            above == RSub(RInt(100), RMul(RSub(r, R(6, 5)), RInt(250)))
            below == RSub(RInt(100), RMul(RSub(R(9, 10), r), RInt(500)))
        IN  /\ (RLe(R(9, 10), r) /\ RLe(r, R(6, 5))) => s = RInt(100)
            /\ RLt(R(6, 5), r) =>
                  /\ s = (IF RLt(above, RInt(0)) THEN RInt(0) ELSE above)
                  /\ RLe(HrvScore(RSub(R(9, 10), RSub(r, R(6, 5)))), s)
            /\ RLt(r, R(9, 10)) =>
                  /\ s = (IF RLt(below, RInt(0)) THEN RInt(0) ELSE below)
                  /\ RLe(s, HrvScore(RAdd(R(6, 5), RSub(R(9, 10), r))))
            /\ r = R(7, 10) => RLt(s, HrvScore(R(14, 10)))
            /\ \A k \in 0 .. MaxRatio20 :
                  /\ (RLe(R(6, 5), r) /\ RLe(r, R(k, 20))) =>
                        RLe(HrvScore(R(k, 20)), s)
                  /\ (RLe(r, R(9, 10)) /\ RLe(R(k, 20), r)) =>
                        RLe(HrvScore(R(k, 20)), s)

\* C10 witness: last night 35 over an average of 50 is the ratio 0.7 and
\* scores 0, below the 50 of the ratio 1.4.
C10_Witness ==
    /\ Scored
    /\ recovery.target_date = LastDay
    /\ hrv[LastDay] = HrvRow(N(35))
    /\ hrv[LastDay - 1] = HrvRow(N(65))
    /\ recovery.locals.hrv_ratio = R(7, 10)
    /\ recovery.locals.hrv_score = RInt(0)
    /\ HrvScore(R(14, 10)) = RInt(50)

(* ----------------------- composite scenarios ------------------------ *)

\* Signals at their baselines, the stress day of the scoring test (RHR 55,
\* HRV 40 over an average of 50, stress 45), and stress at and around
\* 35.77 / 1.15, where the stress penalty starts.
InitComposite ==
    /\ \E r \in {<< >>} \cup { RhrRow(v) :
                v \in {X(5061, 100), N(52), N(55)} } :
          resting_hr = OneRow(LastDay, r)
    /\ \E h1 \in {<< >>} \cup { HrvRow(v) :
                v \in {N(40), N(50), X(5145, 100)} },
          h0 \in {<< >>} \cup { HrvRow(v) : v \in {N(50), N(60)} } :
          hrv = TwoRows(LastDay, h1, LastDay - 1, h0)
    /\ \E st \in {<< >>} \cup { StressRow(v) :
                v \in {N(30), N(31), X(3577, 115), N(32), N(45), N(80),
                       N(90)} } :
          daily_summary = OneRow(LastDay, st)
    /\ sleep = NoRows
    /\ activities = << >>
    /\ verdict = NoVerdict
    /\ recovery = NoScore
    /\ history = NoHistory
    /\ trends = NoTrends

SpecComposite == InitComposite /\ [][NextScore]_vars

NoRowsInWindow(table) ==
    \A d \in Days :
        (recovery.target_date - 7 <= d /\ d <= recovery.target_date)
            => table[d] = << >>

\* The returned score is a number from 0 to 100.
NumericScore ==
    /\ recovery.score.d > 0
    /\ InRange(recovery.score)

\* C12 as stated: with no stress rows in the window the raw stress is the
\* baseline stress mean 35.77 (and with no RHR rows the RHR is the baseline
\* RHR mean, with no HRV rows the HRV average is the baseline HRV), and the
\* score is numeric.
C12_BaselineFallbacks ==
    Scored =>
        /\ NoRowsInWindow(resting_hr) =>
              recovery.locals.current_rhr = GOLDEN_RHR_MEAN
        /\ NoRowsInWindow(hrv) => recovery.locals.hrv_7d = GOLDEN_HRV
        /\ NoRowsInWindow(daily_summary) =>
              recovery.locals.raw_stress = GOLDEN_STRESS_MEAN
        /\ NumericScore

\* C12, amended: for every subset of missing signals the score is numeric;
\* with no RHR rows in the window the RHR is the baseline RHR mean 50.61,
\* with no HRV rows in the window the HRV average is the baseline HRV 51.45,
\* with no HRV row for the scored date last night's HRV is the HRV average
\* (ratio 1), and with no stress rows the raw stress is the default 30,
\* below the baseline stress mean, so that the stress sub-score is 100.
C12_Fallbacks ==
    Scored =>
        /\ NoRowsInWindow(resting_hr) =>
              /\ recovery.locals.current_rhr = R(5061, 100)
              /\ recovery.locals.rhr_score = RInt(100)
        /\ NoRowsInWindow(hrv) => recovery.locals.hrv_7d = R(5145, 100)
        /\ hrv[recovery.target_date] = << >> =>
              /\ recovery.locals.hrv_today = recovery.locals.hrv_7d
              /\ recovery.locals.hrv_ratio = RInt(1)
              /\ recovery.locals.hrv_score = RInt(100)
        /\ NoRowsInWindow(daily_summary) =>
              /\ recovery.locals.raw_stress = RInt(30)
              /\ recovery.locals.stress_score = RInt(100)
        /\ NumericScore

\* C12 witness: a date is scored whose window holds no row of any of the
\* three tables, while a later date has RHR, HRV and stress rows.
C12_Witness ==
    /\ Scored
    /\ recovery.target_date = LastDay - 1
    /\ NoRowsInWindow(resting_hr)
    /\ NoRowsInWindow(hrv)
    /\ NoRowsInWindow(daily_summary)
    /\ resting_hr[LastDay] # << >>
    /\ hrv[LastDay] # << >>
    /\ daily_summary[LastDay] # << >>
    /\ recovery.score = RInt(100)

\* The Lag-2 high-load warning of an evaluated date.
HighLoadWarning(target_date) ==
    <<"Lag", "-", "2", "Impact", "(", "High", "Load", "on">>
    \o DayText(target_date - 2) \o <<")">>

\* The record two calendar days before the evaluated date has more than
\* 5000 steps.
HighLoadT2 ==
    /\ verdict.target_date - 2 \in Days
    /\ daily_summary[verdict.target_date - 2] # << >>
    /\ daily_summary[verdict.target_date - 2][1].steps # NULL
    /\ RLt(RInt(5000), daily_summary[verdict.target_date - 2][1].steps[1])

\* C13: when the evaluated date has a row and the record two calendar days
\* earlier has more than 5000 steps, the Lag-2 high-load warning is among
\* the warnings; if moreover no red flag is raised by the date's own
\* record or by T-1, the status is YELLOW, the step ceiling 3000 and the
\* reason contains that warning.
C13_Lag2HighLoad ==
    (Evaluated /\ ~TargetRowAbsent /\ HighLoadT2) =>
        /\ Member(HighLoadWarning(verdict.target_date), verdict.warnings)
        /\ verdict.red_flags = << >> =>
              /\ verdict.status = "YELLOW"
              /\ verdict.target_steps = 3000
              /\ Contains(verdict.reason,
                          HighLoadWarning(verdict.target_date))

\* C13 witness: T-2 has 6000 steps, the date's own record and T-1 raise
\* nothing, and the Lag-2 warning is the only one.
C13_Witness ==
    /\ Evaluated /\ ~TargetRowAbsent /\ HighLoadT2
    /\ verdict.red_flags = << >>
    /\ verdict.warnings = << HighLoadWarning(verdict.target_date) >>
    /\ Fetch(daily_summary, verdict.target_date - 1) # << >>
    /\ verdict.status = "YELLOW"

\* The warnings of Gate 3 among a list of warnings: those that begin with
\* "Lag".
Lag2Warnings(warnings) ==
    SelectSeq(warnings, LAMBDA w : Len(w) >= 1 /\ w[1] = "Lag")

\* C14: the days a sync rewrites are never two days before themselves, so
\* between two evaluations of one date the record of T-2 is the same while
\* the rows of the date and of T-1 vary: the Lag-2 warnings of the two
\* evaluations are the same.  With no record at T-2 an evaluation raises no
\* Lag-2 warning, also when the date's own row has 800 steps and stress 45.
C14_Lag2ReadsOnlyT2 ==
    [][/\ (/\ Evaluated /\ Evaluated'
           /\ verdict'.target_date = verdict.target_date
           /\ verdict.status # "GRAY" /\ verdict'.status # "GRAY") =>
              Lag2Warnings(verdict'.warnings) = Lag2Warnings(verdict.warnings)
       /\ (/\ Evaluated'
           /\ Fetch(daily_summary, verdict'.target_date - 2) = << >>
           /\ verdict' # verdict) =>
              Lag2Warnings(verdict'.warnings) = << >>]_vars

\* C14 witness: the last day is evaluated afresh after syncs gave it 800
\* steps and stress 45 and gave T-1 6000 steps and a heart-rate spike; T-2
\* is a clean day, and no Lag-2 warning is raised.
C14_Witness ==
    /\ Evaluated
    /\ verdict.target_date = LastDay
    /\ verdict = calculate_metrics(LastDay)
    /\ daily_summary[LastDay] = <<Row(NULL, N(100), NULL, N(45), N(800), NULL)>>
    /\ daily_summary[LastDay - 1] =
          <<Row(NULL, N(120), NULL, N(25), N(6000), NULL)>>
    /\ daily_summary[LastDay - 2] =
          <<Row(NULL, N(100), NULL, N(25), N(3000), NULL)>>
    /\ Member(SensoryFlag, verdict.red_flags)
    /\ Lag2Warnings(verdict.warnings) = << >>

\* Some text of the list begins with the words of prefix.
Raised(list, prefix) ==
    \E i \in 1 .. Len(list) :
        /\ Len(list[i]) >= Len(prefix)
        /\ SubSeq(list[i], 1, Len(prefix)) = prefix

\* The table has no row for the day (a day before the first one has none).
Absent(table, day) == day \notin Days \/ table[day] = << >>

\* C15: an evaluated date that has a daily-summary row gets status GREEN,
\* YELLOW or RED whatever rows are absent and whatever columns are null;
\* no T-1 row: no Volume Ceiling and no Metabolic Tax flag; no T-2 row: no
\* Lag-2 warning; no sleep row: no Unrefreshing Sleep warning; no activity
\* of the day before: no Inefficient Movement warning.
C15_GapsDegradeGracefully ==
    (Evaluated /\ ~TargetRowAbsent) =>
        LET t == verdict.target_date
        IN  /\ verdict.status \in {"GREEN", "YELLOW", "RED"}
            /\ verdict.target_steps \in {4500, 3000, 1500}
            /\ Absent(daily_summary, t - 1) =>
                  /\ ~Raised(verdict.red_flags, <<"Volume", "Ceiling">>)
                  /\ ~Raised(verdict.red_flags, <<"High", "Metabolic", "Tax">>)
            /\ Absent(daily_summary, t - 2) =>
                  Lag2Warnings(verdict.warnings) = << >>
            /\ Absent(sleep, t) =>
                  ~Raised(verdict.warnings, <<"Unrefreshing">>)
            /\ (\A i \in 1 .. Len(activities) : activities[i].day # t - 1) =>
                  ~Raised(verdict.warnings, <<"Inefficient">>)

\* C15 witness: the last day's row has every column null, T-1 is absent,
\* T-2 holds 6000 steps, there is no sleep row and no activity; the
\* verdict is YELLOW by the Lag-2 warning alone.
C15_Witness ==
    /\ Evaluated
    /\ verdict.target_date = LastDay
    /\ daily_summary[LastDay] = <<Row(NULL, NULL, NULL, NULL, NULL, NULL)>>
    /\ daily_summary[LastDay - 1] = << >>
    /\ daily_summary[LastDay - 2] # << >>
    /\ daily_summary[LastDay - 2][1].steps = N(6000)
    /\ sleep[LastDay] = << >>
    /\ activities = << >>
    /\ verdict.status = "YELLOW"
    /\ verdict.red_flags = << >>

\* The first date of the running or finished history request.
StartDate == history.end_date - (history.days - 1)

\* The number of dates the loop has still to visit.
Remaining == history.end_date + 1 - history.current

\* What holds of the lists at every point of a history request: the dates
\* are those from the first date up to the current one, each once and in
\* ascending order; the four score lists are as long as the dates list;
\* the entry of a date is None in all four lists when the score of that
\* date raises, and a number in all four otherwise; at the return there is
\* one entry for each of the requested days, the last one for today.
HistoryLists ==
    history.pc # "idle" =>
        LET data == history.data
            len  == Len(data.dates)
        IN  /\ len = history.current - StartDate
            /\ len <= history.days
            /\ Remaining >= 0
            /\ \A i \in 1 .. len : data.dates[i] = StartDate + (i - 1)
            /\ Len(data.recovery_score) = len
            /\ Len(data.rhr_score) = len
            /\ Len(data.hrv_score) = len
            /\ Len(data.stress_score) = len
            /\ \A i \in 1 .. len :
                  IF ScoreRaises(data.dates[i])
                  THEN /\ data.recovery_score[i] = NULL
                       /\ data.rhr_score[i] = NULL
                       /\ data.hrv_score[i] = NULL
                       /\ data.stress_score[i] = NULL
                  ELSE /\ data.recovery_score[i] # NULL
                       /\ data.rhr_score[i] # NULL
                       /\ data.hrv_score[i] # NULL
                       /\ data.stress_score[i] # NULL
            /\ history.pc = "done" =>
                  /\ len = history.days
                  /\ data.dates[len] = history.end_date

\* C16: the history driver visits every date of the requested range once
\* and in ascending order, a date whose score raises gets None in the four
\* score lists and the dates after it are still scored, and the five lists
\* have one entry per date.  The driver terminates: every pass of the loop
\* visits one date and lowers the number of dates still to visit by one,
\* that number is never negative, and the loop is left, with the lists
\* untouched, when it is zero.
C16_HistoryCoversRange ==
    [][/\ HistoryLists'
       /\ (history.pc = "loop" /\ history'.pc = "loop") =>
              /\ Remaining > 0
              /\ Remaining' = Remaining - 1
              /\ Len(history'.data.dates) = Len(history.data.dates) + 1
       /\ (history.pc = "loop" /\ history'.pc # "loop") =>
              /\ history'.pc = "done"
              /\ Remaining = 0
              /\ history'.data = history.data]_vars

\* C16 witness: a request for three days has returned; the score of the
\* middle date raised and that of the last date did not.
C16_Witness ==
    /\ history.pc = "done"
    /\ history.days = 3
    /\ ScoreRaises(LastDay - 1)
    /\ ~ScoreRaises(LastDay)
    /\ ~ScoreRaises(LastDay - 2)
    /\ history.data.recovery_score[2] = NULL
    /\ history.data.recovery_score[3] # NULL
    /\ history.data.recovery_score[1] # NULL

\* C17: a date of the history whose evaluation raises is scored with
\* status GREEN: its recovery score is what get_recovery_score returns for
\* the date under GREEN, the rounded weighted sum without veto or cap.
C17_GreenOnEvalFailure ==
    \A i \in 1 .. Len(history.data.dates) :
        LET date == history.data.dates[i]
        IN  (EvalRaises(date) /\ ~ScoreRaises(date)) =>
              /\ history.statuses[i] = "GREEN"
              /\ history.data.recovery_score[i] =
                    Some(get_recovery_score("GREEN", date).score)
              /\ history.data.recovery_score[i] =
                    Some(RoundTo(get_recovery_score("GREEN", date)
                                    .locals.final_score, 10))
              /\ get_recovery_score("GREEN", date).veto_msg = NULL

\* C17 witness: the evaluation of the last day raises, its score does not
\* is above the cap of a vetoed status; the score of the day before raises,
\* and its text counts as 0 in the HRV average.
C17_Witness ==
    /\ history.pc = "done"
    /\ history.days >= 2
    /\ EvalRaises(LastDay)
    /\ ~ScoreRaises(LastDay)
    /\ ScoreRaises(LastDay - 1)
    /\ history.data.recovery_score[history.days] # NULL
    /\ RLt(RInt(40), history.data.recovery_score[history.days][1])

\* The row of the day has fewer than 3000 steps and an average stress
\* above 35.
HighIdle(day) ==
    /\ day \in Days
    /\ daily_summary[day] # << >>
    /\ daily_summary[day][1].steps # NULL
    /\ RLt(daily_summary[day][1].steps[1], RInt(3000))
    /\ daily_summary[day][1].stress_avg # NULL
    /\ RLt(RInt(35), daily_summary[day][1].stress_avg[1])

\* C18: when the evaluated date's own row has fewer than 3000 steps and an
\* average stress above 35, the status is RED and the reason contains
\* "System is idling high", whatever else is raised for the date.
C18_SensoryLoadIsRed ==
    (Evaluated /\ HighIdle(verdict.target_date)) =>
        /\ verdict.status = "RED"
        /\ verdict.target_steps = 1500
        /\ Contains(verdict.reason, <<"System", "is", "idling", "high">>)

\* C18 witness: the date has 800 steps and stress 45, and also a low
\* resting heart rate, a poor recharge and a breach of the volume ceiling
\* on the day before.
C18_Witness ==
    /\ Evaluated
    /\ HighIdle(verdict.target_date)
    /\ Len(verdict.red_flags) = 4
    /\ verdict.warnings # << >>
    /\ verdict.reason = SensoryReason

\* C19: when the row of the day before the evaluated date has fewer than
\* 3000 steps and an average stress above 35, the reason of the verdict
\* contains "T-1 High Idle / Sensory Overload".
C19_YesterdayHighIdleVisible ==
    (/\ Evaluated
     /\ verdict = calculate_metrics(verdict.target_date)
     /\ ~TargetRowAbsent
     /\ HighIdle(verdict.target_date - 1)) =>
        Contains(verdict.reason,
                 <<"T", "-", "1", "High", "Idle", "/", "Sensory", "Overload">>)

C21_PoorRecharge ==
    (Evaluated /\ ~TargetRowAbsent) =>
        LET bb_charged == daily_summary[verdict.target_date][1].bb_charged
            poor == Raised(verdict.red_flags, <<"Poor", "Recharge">>)
        IN  /\ (bb_charged # NULL /\ RLt(bb_charged[1], RInt(50))) =>
                  (poor /\ verdict.status = "RED")
            /\ (bb_charged # NULL /\ RLe(RInt(50), bb_charged[1])) => ~poor

\* The T-2 row of the evaluated date, << >> when there is none.
RowT2 == Fetch(daily_summary, verdict.target_date - 2)

\* Steps and stress of the T-2 row, an absent value counted as 0, and the
\* composite risk steps / 4000 + stress / 35.
StepsT2 == IF RowT2[1].steps = NULL THEN RInt(0) ELSE RowT2[1].steps[1]

StressT2 ==
    IF RowT2[1].stress_avg = NULL THEN RInt(0) ELSE RowT2[1].stress_avg[1]

RiskT2 == RAdd(RDiv(StepsT2, RInt(4000)), RDiv(StressT2, RInt(35)))

\* The composite-risk warning with the score rounded to two decimals.
RiskWarning ==
    <<"Lag", "-", "2", "Warning", "(", "Risk">>
    \o FloatText(RoundTo(RiskT2, 100)) \o <<")">>

\* The HR-spike warning of an evaluated date.
SpikeWarning ==
    <<"Lag", "2", "HR", "Spike", "(">> \o DayText(verdict.target_date - 2)
    \o <<")">>

\* C22 as stated: every T-2 record with steps not above 5000 and a
\* composite risk above 1.5 adds the composite-risk warning, and a T-2
\* max HR above 110 adds the HR-spike warning.
C22_CompositeRisk ==
    (Evaluated /\ ~TargetRowAbsent /\ RowT2 # << >>) =>
        /\ (RLe(StepsT2, RInt(5000)) /\ RLt(R(3, 2), RiskT2)) =>
              Member(RiskWarning, verdict.warnings)
        /\ (RowT2[1].hr_max # NULL /\ RLt(RInt(110), RowT2[1].hr_max[1])) =>
              Member(SpikeWarning, verdict.warnings)

\* C22, amended: the composite-risk warning, carrying the score, is added
\* exactly when the T-2 record is not a sensory overload (stress above 35
\* with fewer than 3000 steps), has steps not above 5000 and a composite
\* risk above 1.5; a sensory overload gets the sensory warning instead.
\* Independently, the HR-spike warning is added exactly when the T-2 max
\* HR is above 110.
C22_CompositeRiskElse ==
    (Evaluated /\ ~TargetRowAbsent /\ RowT2 # << >>) =>
        LET sensory == RLt(RInt(35), StressT2) /\ RLt(StepsT2, RInt(3000))
        IN  /\ Member(RiskWarning, verdict.warnings) <=>
                  (/\ ~sensory
                   /\ RLe(StepsT2, RInt(5000))
                   /\ RLt(R(3, 2), RiskT2))
            /\ Raised(verdict.warnings, <<"Lag", "-", "2", "Warning">>) =>
                  Member(RiskWarning, verdict.warnings)
            /\ sensory =>
                  Raised(verdict.warnings, <<"Lag", "-", "2", "Risk", ":">>)
            /\ Member(SpikeWarning, verdict.warnings) <=>
                  (RowT2[1].hr_max # NULL
                   /\ RLt(RInt(110), RowT2[1].hr_max[1]))

\* C22 witness: T-2 has 4000 steps, stress 45 and a max HR of 111: the
\* warnings are the composite risk 2.29 and the HR spike.
C22_Witness ==
    /\ Evaluated /\ ~TargetRowAbsent /\ RowT2 # << >>
    /\ StepsT2 = RInt(4000)
    /\ StressT2 = RInt(45)
    /\ verdict.warnings =
          << <<"Lag", "-", "2", "Warning", "(", "Risk", "2", ".", "29", ")">>,
             SpikeWarning >>

\* C23: the cost of the evaluated date is calories / steps * 1000 when the
\* steps are above 0 (and the calories are recorded), and 0 when the steps
\* are 0 or absent; the warning "High Physiological Cost", with the cost
\* truncated to an integer, is raised exactly when the cost is above
\* 29.0 * 1.2 = 34.8.
C23_PhysiologicalCost ==
    (Evaluated /\ ~TargetRowAbsent) =>
        LET steps == daily_summary[verdict.target_date][1].steps
            cals  == daily_summary[verdict.target_date][1].calories_active
            cost  == IF steps # NULL /\ RLt(RInt(0), steps[1]) /\ cals # NULL
                     THEN RMul(RDiv(cals[1], steps[1]), RInt(1000))
                     ELSE RInt(0)
            high  == Raised(verdict.warnings,
                            <<"High", "Physiological", "Cost">>)
        IN  /\ verdict.physio_cost = cost
            /\ (steps = NULL \/ steps = N(0)) => verdict.physio_cost = RInt(0)
            /\ RMul(RInt(29), R(12, 10)) = R(348, 10)
            /\ high <=> RLt(R(348, 10), cost)
            /\ high =>
                  Member(<<"High", "Physiological", "Cost", "(">>
                         \o IntText(Trunc(cost)) \o <<")">>, verdict.warnings)

\* C23 witness: 174 calories on 5000 steps cost exactly 34.8 and raise no
\* warning.
C23_Witness ==
    /\ Evaluated
    /\ verdict.target_date = LastDay
    /\ verdict.physio_cost = R(348, 10)
    /\ ~Raised(verdict.warnings, <<"High", "Physiological", "Cost">>)

\* The warning "Inefficient Movement" is among the warnings.
Inefficient == Raised(verdict.warnings, <<"Inefficient", "Movement">>)

\* The number of "Inefficient Movement" warnings.
InefficientCount ==
    Len(SelectSeq(verdict.warnings,
                  LAMBDA w : Len(w) >= 1 /\ w[1] = "Inefficient"))

\* C24 as stated: the warning "Inefficient Movement" is raised if and only
\* if a walking / hiking activity of the day before the evaluated date has
\* an average cadence below 95, and at most once.
C24_SlowWalk ==
    (Evaluated /\ ~TargetRowAbsent) =>
        /\ Inefficient <=>
              \E i \in 1 .. Len(activities) :
                  /\ activities[i].day = verdict.target_date - 1
                  /\ activities[i].walk
                  /\ activities[i].avg_cadence # NULL
                  /\ RLt(activities[i].avg_cadence[1], RInt(95))
        /\ InefficientCount <= 1

\* C24, amended: the warning "Inefficient Movement" is raised if and only
\* if a walking / hiking activity of the day before the evaluated date has
\* an average cadence above 0 and below 95, and at most once however many
\* activities match.
C24_SlowWalkAboveZero ==
    (Evaluated /\ ~TargetRowAbsent) =>
        /\ Inefficient <=>
              \E i \in 1 .. Len(activities) :
                  /\ activities[i].day = verdict.target_date - 1
                  /\ activities[i].walk
                  /\ activities[i].avg_cadence # NULL
                  /\ RLt(RInt(0), activities[i].avg_cadence[1])
                  /\ RLt(activities[i].avg_cadence[1], RInt(95))
        /\ InefficientCount <= 1

\* C24 witness: the day before has two slow walks, of cadence 80 and 94,
\* and the warning is raised once.
C24_Witness ==
    /\ Evaluated
    /\ verdict.target_date = LastDay
    /\ Len(activities) = 2
    /\ activities[1].avg_cadence = N(80) /\ activities[1].walk
    /\ activities[1].day = LastDay - 1
    /\ activities[2].avg_cadence = N(94) /\ activities[2].walk
    /\ InefficientCount = 1

\* The average of a column over the seven days that end at the scored
\* date, or the fallback when no row of those days has a value.
SevenDayAvg(table, col, fallback) ==
    LET t == recovery.target_date
        days == { d \in Days : /\ t - 6 <= d /\ d <= t
                               /\ table[d] # << >>
                               /\ table[d][1][col] # NULL }
        avg == RDiv(SumCol(table, col, days), RInt(Cardinality(days)))
    IN  IF days = {} \/ avg.n = 0 THEN fallback ELSE avg

\* C25: the RHR, HRV and stress averages of a score are taken over the
\* seven days targetDate-6 .. targetDate: rows dated targetDate-7 or
\* earlier, or after targetDate, have no part in them.
C25_SevenDayWindow ==
    Scored =>
        /\ recovery.locals.current_rhr =
              SevenDayAvg(resting_hr, "resting_heart_rate", R(5061, 100))
        /\ recovery.locals.hrv_7d =
              SevenDayAvg(hrv, "last_night_avg", R(5145, 100))
        /\ recovery.locals.raw_stress =
              SevenDayAvg(daily_summary, "stress_avg", RInt(30))

\* Trends have been computed.
Trended == trends.target_date # -1

\* The four signals of the trends dictionary and the columns they read.
Signals == {<<"rhr", "rhr">>, <<"batt", "bb_max">>,
            <<"stress", "stress_avg">>, <<"hrv", "hrv">>}

\* C26: when the target date and the date three days before it both have a
\* daily-summary row, the 3-day delta of every signal is the value on the
\* target date minus the value on that date, whatever other dates of the
\* window lack a row.
C26_ThreeDayDelta ==
    (/\ Trended
     /\ Fetch(daily_summary, trends.target_date) # << >>
     /\ Fetch(daily_summary, trends.target_date - 3) # << >>)
        => \A sg \in Signals :
              trends[sg[1]].trend_3d =
                  RSub(get_val(trends.target_date, sg[2]),
                       get_val(trends.target_date - 3, sg[2]))

\* The dates of the trend window that have a daily-summary row.
WindowDays ==
    { d \in Days : /\ trends.target_date - 6 <= d
                   /\ d <= trends.target_date
                   /\ daily_summary[d] # << >> }

\* The three latest and the three earliest of a set of dates.
Latest3(S) == { d \in S : Cardinality({ l \in S : l > d }) < 3 }

Earliest3(S) == { d \in S : Cardinality({ l \in S : l < d }) < 3 }

\* The sum of a signal over a set of dates.
RECURSIVE SignalSum(_, _)
SignalSum(S, key) ==
    IF S = {} THEN RInt(0)
    ELSE LET d == CHOOSE x \in S : TRUE
         IN  RAdd(get_val(d, key), SignalSum(S \ {d}, key))

\* The mean of the three most recent rows minus the mean of the three
\* oldest rows of the window.
MeanDifference(key) ==
    RDiv(RSub(SignalSum(Latest3(WindowDays), key),
              SignalSum(Earliest3(WindowDays), key)),
         RInt(3))

\* C27 as stated: with fewer than 6 rows in the window every 7-day delta is
\* zero, and with 6 rows or more it equals the mean of the 3 most recent
\* rows minus the mean of the 3 oldest rows.
C27_SevenDayDelta ==
    Trended =>
        \A sg \in Signals :
            trends[sg[1]].trend_7d =
                IF Cardinality(WindowDays) < 6 THEN RInt(0)
                ELSE MeanDifference(sg[2])

\* C27, amended: with fewer than 6 rows in the window every 7-day delta is
\* zero, and with 6 rows or more it is a multiple of 0.1 no further than
\* 0.05 from the mean of the 3 most recent rows minus the mean of the 3
\* oldest rows.
C27_SevenDayDeltaRounded ==
    Trended =>
        \A sg \in Signals :
            LET delta == trends[sg[1]].trend_7d
            IN  IF Cardinality(WindowDays) < 6 THEN delta = RInt(0)
                ELSE /\ 10 % delta.d = 0
                     /\ RLe(RAbs(RSub(delta, MeanDifference(sg[2]))),
                            R(1, 20))

\* Six rows in the window, and a 7-day RHR delta of 3.7 for a difference
\* of means of 11/3.
C27_Witness ==
    /\ Trended
    /\ Cardinality(WindowDays) = 6
    /\ MeanDifference("rhr") = R(11, 3)
    /\ trends.rhr.trend_7d = R(37, 10)

\* The verdicts from the worst to the best.
Rank(daily_status) ==
    CASE daily_status = "RED" -> 1
      [] daily_status = "YELLOW" -> 2
      [] daily_status = "GREEN" -> 3
      [] OTHER -> 0

\* The step scores, under a worse verdict, the date and data that have
\* just been scored.
ScoredAgainWorse ==
    /\ Scored
    /\ recovery'.target_date = recovery.target_date
    /\ Rank(recovery.daily_status) > 0
    /\ Rank(recovery'.daily_status) > 0
    /\ Rank(recovery'.daily_status) < Rank(recovery.daily_status)

\* C28 as stated: for the same date and data, a worse verdict never yields
\* a higher score (RED <= YELLOW <= GREEN).
C28_WorseNeverHigher ==
    [][ScoredAgainWorse => RLe(recovery'.score, recovery.score)]_vars

\* C28, amended: for the same date and data, YELLOW never yields a higher
\* score than GREEN, and RED never yields a higher score than a better
\* verdict whose score is 40 or more.
C28_WorseNeverHigherFrom40 ==
    [][(/\ ScoredAgainWorse
        /\ recovery'.daily_status = "RED" => RLe(RInt(40), recovery.score))
           => RLe(recovery'.score, recovery.score)]_vars

\* Data whose composite is above 40 has been scored under RED, which
\* yields 40.
C28_Witness ==
    /\ Scored
    /\ recovery.daily_status = "RED"
    /\ RLt(RInt(40), recovery.locals.final_score)
    /\ recovery.score = RInt(40)

\* C29: whenever gate 3 raised a Lag-2 warning for the evaluated date and
\* no red flag keeps the warnings out of the reason, the Crash Predictor
\* panel derived from the reason is not GREEN.
C29_CrashPredictor ==
    (/\ Evaluated
     /\ verdict.red_flags = << >>
     /\ Lag2Warnings(verdict.warnings) # << >>)
        => crash_status(verdict).status # "GREEN"

\* The steps recorded on the day before the evaluated date (0 for none).
StepsT1 ==
    LET row_t1 == Fetch(daily_summary, verdict.target_date - 1)
    IN  IF row_t1 = << >> THEN RInt(0) ELSE OrZero(row_t1[1].steps)

\* C30: when the steps recorded on the day before the evaluated date do not
\* exceed 4500, the step ceiling of a GREEN verdict, the evaluation raises
\* no "Volume Ceiling Breached" red flag.
C30_ComplianceNoBreach ==
    (Evaluated /\ RLe(StepsT1, RInt(4500))) =>
        ~Raised(verdict.red_flags, <<"Volume", "Ceiling", "Breached">>)

====
